---- MODULE Spec2Model ----
(***************************************************************************)
(* Verification model of calypso-slurm-scheduler.                          *)
(*                                                                         *)
(*   Spec        the Generation Orchestrator (scheduler.py, run and its    *)
(*               helpers) together with the batch scheduler and the Job    *)
(*               Runners of the submitted jobs at structure granularity.   *)
(*   RunnerSpec  the Job Runner (task.py: main, VaspJob.run and            *)
(*               VaspJob.monitor_and_restart) of one Task at step and      *)
(*               watchdog-poll granularity, run by successive batch jobs.  *)
(***************************************************************************)
EXTENDS Integers, Sequences, FiniteSets, TLC

\* ------------------------------------------------------------------ bounds
MaxStep == 3   \* largest value the generator's step counter takes
NStruct  == 2   \* candidate structures of one generation
MaxJobs  == 3   \* batch submissions the scheduler accepts in one behaviour
MaxWords == 4   \* words of the scheduler's answer to sbatch
NSteps   == 2   \* INCAR_<i> stages in the shared input directory
MaxRuns  == 2   \* batch jobs that execute the Job Runner of the one Task of RunnerSpec
MaxPieces == 2  \* tokens and phrases of one output stream of scontrol
MaxLines == 3   \* lines of an INCAR file

\* Iterations of the launch loop of monitor_and_restart, range(3).
Attempts == 3

\* Threshold of the ML phases (--ml_train_until), a configuration value.
ml_train_until == 1

NoStep == 0      \* the counter file `step` does not exist
None   == -1     \* Python's None for a generation number
NoJob  == 0      \* no current_id recorded

Gens    == 0..(MaxStep - 1)
Structs == 1..NStruct
Steps   == 1..NSteps
JobIds  == 1..MaxJobs

VARIABLES
    \* ---- generator workspace (calypso_workdir)
    stepFile,      \* contents of the `step` counter file, NoStep when absent
    poscars,       \* structure ids of the POSCAR_* files present
    outputs,       \* generations whose outputs were copied into the workspace
    \* ---- tasks_dir/task_<g>
    taskDir,       \* set of generations that have a task_<g> directory
    taskPoscars,   \* [g -> structure ids under task_<g>/poscars]
    taskConfig,    \* [g -> config.json]
    slurmFile,     \* [g -> current_id of slurm.json, NoJob when absent]
    statusFile,    \* [g -> status.json]
    \* ---- batch scheduler
    jobs,          \* sequence of accepted jobs, the job id is the index
    \* ---- Orchestrator process
    orch,          \* "running" | "crashed" | "failed" | "done"
    \* ---- history
    cycle,         \* what the most recent poll cycle observed and did
    configWrites   \* [g -> number of times config.json was written]

VARIABLES
    \* ---- the Task of RunnerSpec: task_<g> on disk
    rConfig,       \* ML flags of config.json
    rStatus,       \* status.json
    rJobDir,       \* structures that have a job_<s> directory (POSCAR_ORIGINAL)
    rSteps,        \* [s -> [i -> the directory job_<s>/step_<i>]]
    \* ---- the Job Runner process of the Task's current batch job
    rPc,           \* "idle" (no process) | "loop" | "step" | "watch"
    rRun,          \* number of batch jobs started so far; the current job's id
    rFlags,        \* main's ml_train, ml_refit, ml_predict
    rMem,          \* main's status_data["jobs"]
    rCur,          \* structures main's loop has iterated over
    rStep,         \* the step VaspJob.run is at
    wd,            \* monitor_and_restart: the child, the reader, the clock
    \* ---- history
    rStart,        \* status.json as the current Job Runner loaded it
    rProcessed,    \* structures the current Job Runner processed, in order
    rDone,         \* [s -> the entry main held when it last finished processing s]
    rEnd           \* how the most recent Job Runner ended

VARIABLES
    \* ---- the Orchestrator's output collection for the Task of RunnerSpec
    rOut,          \* [s -> what the generator workspace holds for structure s]
    rCollect       \* the outcome of copy_output_from_task_from_id

collectVars == <<rOut, rCollect>>

VARIABLES
    \* ---- one call of submit_job (SubmitSpec)
    sbIn,          \* sbatch's behaviour: its exit code and the words of its stdout
    sbPc,          \* "start" | "script" (temporary script written) | "done"
    sbTmp,         \* the temporary .slurm script is a file
    sbOut          \* how the call ended

submitVars == <<sbIn, sbPc, sbTmp, sbOut>>

VARIABLES
    \* ---- one call of get_job_status (QuerySpec)
    qIn,           \* scontrol's behaviour: its exit code, its stdout, its stderr
    qPc,           \* "idle" (no call) | "start" | "done"
    qOut           \* how the call ended

queryVars == <<qIn, qPc, qOut>>

VARIABLES
    \* ---- IncarFile on the text of one file (IncarSpec)
    icFile,        \* the lines of the file before any edit
    icTag,         \* the tag get, set and delete are called with
    icVal,         \* the value set is called with
    icCur,         \* the lines of the file now
    icOp,          \* the edit made so far: "none" | "set" | "delete"; "idle"
                   \* when no file is examined
    icGot,         \* what the most recent get returned
    icGotAt        \* the value of icOp at that get, "-" before any get

incarVars == <<icFile, icTag, icVal, icCur, icOp, icGot, icGotAt>>

VARIABLES
    \* ---- one call of VaspJob.run, from the first launch on (RunSpec)
    vjPc,          \* "idle" (no call) | "step" | "watch" | "done"
    vjStep,        \* the step run is at
    vjRan,         \* for every step that returned: the child's exit, whether
                   \* OUTCAR is a file, the side-artifacts that are files
    vjExport,      \* the side-artifacts copied to ml_output: <<name, step>>
    vjExc          \* the exception the call ended with, "" for none

runVars == <<vjPc, vjStep, vjRan, vjExport, vjExc>>

VARIABLES
    \* ---- status.json by its keys, over the batch jobs of one Task (StatusSpec)
    stPoscars,     \* structure ids of the POSCAR_* files under the Task's poscars
    stFile,        \* status.json: whether it is a file, and its "jobs" by key
    stMem,         \* main's status_data["jobs"], by key
    stPc,          \* "idle" (no Task) | "start" | "loop" | "gone" | "collect" | "end"
    stLast,        \* the structure main's loop iterated over last, 0 for none
    stRuns,        \* number of batch jobs started so far
    stChecked      \* what the Orchestrator's completeness check returned last

statusVars == <<stPoscars, stFile, stMem, stPc, stLast, stRuns, stChecked>>

runnerVars == <<rConfig, rStatus, rJobDir, rSteps, rPc, rRun, rFlags, rMem,
                rCur, rStep, wd, rStart, rProcessed, rDone, rEnd>>

orchVars == <<stepFile, poscars, outputs, taskDir, taskPoscars, taskConfig,
              slurmFile, statusFile, jobs, orch, cycle, configWrites>>

\* ------------------------------------------------------------ data shapes
NoConfig == [exists |-> FALSE, ml_train |-> FALSE, ml_refit |-> FALSE,
             ml_predict |-> FALSE]

NotFinished == [s \in Structs |-> "not-finished"]

NoStatus == [exists |-> FALSE, jobs |-> NotFinished]

\* What a poll cycle saw when it started (gen, hadConfig, recorded, jobState,
\* status, jobsBefore), the external operations it performed, in order, and
\* whether it read the candidates and the counter again after the generator.
NoCycle == [gen |-> None, hadConfig |-> FALSE, recorded |-> NoJob,
            jobState |-> "-", status |-> NoStatus, jobsBefore |-> 0,
            events |-> <<>>, reread |-> FALSE]

Ev(op, g, retry, ok) == [op |-> op, gen |-> g, retry |-> retry, ok |-> ok]

\* ------------------------------------------------------ scheduler.py helpers
check_calypso_generation ==
    IF stepFile = NoStep THEN None ELSE stepFile - 1

get_current_slurm_id_from_id(g) == slurmFile[g]

\* scontrol's JobState of a job; a job the scheduler forgot reads UNKNOWN.
get_job_status(id) == jobs[id].state

JobIsWaitedFor_OnlyPending(st) == st = "PENDING"

JobIsWaitedFor(st) == st = "PENDING" \/ st = "RUNNING"

check_if_all_task_job_completed_from_id_AbsentIsComplete(g) ==
    \A s \in Structs : statusFile[g].exists => statusFile[g].jobs[s] = "success"

check_if_all_task_job_completed_from_id(g) ==
    /\ statusFile[g].exists
    /\ \A s \in Structs : statusFile[g].jobs[s] = "success"

TaskConfigIsFile_Never(g) == FALSE

\* possible_current_task_config.is_file() of run
TaskConfigIsFile(g) == taskConfig[g].exists

\* A job of the scheduler that can still execute the Job Runner.
Live(j) == jobs[j].state \in {"PENDING", "RUNNING"}

LiveJobsOf(g) == {j \in DOMAIN jobs : jobs[j].task = g /\ Live(j)}

\* ------------------------------------------------------------------- Init
OrchInit ==
    /\ stepFile = NoStep
    /\ poscars = {}
    /\ outputs = {}
    /\ taskDir = {}
    /\ taskPoscars = [g \in Gens |-> {}]
    /\ taskConfig = [g \in Gens |-> NoConfig]
    /\ slurmFile = [g \in Gens |-> NoJob]
    /\ statusFile = [g \in Gens |-> NoStatus]
    /\ jobs = <<>>
    /\ orch = "running"
    /\ cycle = NoCycle
    /\ configWrites = [g \in Gens |-> 0]

\* What the cycle that starts now observes.
Observe(g) ==
    [gen |-> g,
     hadConfig |-> IF g = None THEN FALSE ELSE taskConfig[g].exists,
     recorded |-> IF g = None THEN NoJob ELSE slurmFile[g],
     jobState |-> IF g = None \/ slurmFile[g] = NoJob
                  THEN "-" ELSE jobs[slurmFile[g]].state,
     status |-> IF g = None THEN NoStatus ELSE statusFile[g],
     jobsBefore |-> Len(jobs),
     events |-> <<>>,
     reread |-> FALSE]

\* ------------------------------------------------- Orchestrator operations

\* prepare_task_from_poscars, called by run with the flags of lines 443-445.
\* crashed: the process dies after the candidates were copied and before
\* config.json is written. An empty candidate set is None in run, and the
\* loop over it raises after the directory was made.
\* A variant of task_config that keeps training on in the refit generation.
task_config_RefitStillTrains(g) ==
    [exists |-> TRUE,
     ml_train |-> g <= ml_train_until,
     ml_refit |-> g = ml_train_until,
     ml_predict |-> g > ml_train_until]

\* The config.json of generation g: run passes the three comparisons of g
\* with the threshold, prepare_task_from_poscars writes "enable" for the
\* ones that are true.
task_config(g) ==
    [exists |-> TRUE,
     ml_train |-> g < ml_train_until,
     ml_refit |-> g = ml_train_until,
     ml_predict |-> g > ml_train_until]

\* A variant of prepare_task_from_poscars for a get_calypso_poscars that
\* returns an empty list: the loop of line 364 runs zero times.
prepare_task_from_poscars_EmptyList(g, crashed) ==
    /\ taskDir' = taskDir \cup {g}
    /\ taskPoscars' = [taskPoscars EXCEPT ![g] = @ \cup poscars]
    /\ IF crashed
       THEN /\ orch' = "crashed"
            /\ UNCHANGED <<taskConfig, configWrites>>
       ELSE /\ orch' = orch
            /\ taskConfig' = [taskConfig EXCEPT ![g] = task_config(g)]
            /\ configWrites' = [configWrites EXCEPT ![g] = @ + 1]

prepare_task_from_poscars(g, crashed) ==
    /\ taskDir' = taskDir \cup {g}
    /\ IF poscars = {}
       THEN /\ orch' = "failed"
            /\ UNCHANGED <<taskPoscars, taskConfig, configWrites>>
       ELSE /\ taskPoscars' = [taskPoscars EXCEPT ![g] = @ \cup poscars]
            /\ IF crashed
               THEN /\ orch' = "crashed"
                    /\ UNCHANGED <<taskConfig, configWrites>>
               ELSE /\ orch' = orch
                    /\ taskConfig' = [taskConfig EXCEPT ![g] = task_config(g)]
                    /\ configWrites' = [configWrites EXCEPT ![g] = @ + 1]

NewJob(g, retry) ==
    [task |-> g, retry |-> retry, state |-> "PENDING",
     mem |-> NotFinished, pos |-> 0]

\* submit_slurm_task_from_id: submit_job (sbatch) and then update_slurm_id_from_id.
\* accepted: sbatch exits 0 with its acknowledgement; otherwise submit_job raises
\* SlurmSubmissionError, which run does not catch.
\* crashed: the process dies after sbatch returned and before slurm.json is written.
submit_slurm_task_from_id(g, retry, accepted, crashed) ==
    IF ~accepted
    THEN /\ orch' = "failed"
         /\ UNCHANGED <<jobs, slurmFile>>
    ELSE /\ jobs' = Append(jobs, NewJob(g, retry))
         /\ IF crashed
            THEN /\ orch' = "crashed"
                 /\ UNCHANGED slurmFile
            ELSE /\ orch' = orch
                 /\ slurmFile' = [slurmFile EXCEPT ![g] = Len(jobs) + 1]

\* What the generator can do to the counter file `step`: leave it as it is
\* (absent included), write the next number, or write the previous number when
\* that is still a positive one.
CounterMoves ==
    {0} \cup (IF stepFile < MaxStep THEN {1} ELSE {})
        \cup (IF stepFile > 1 THEN {-1} ELSE {})

\* Lines 194-200 and 451-465 with the exit code of the generator not tested.
RunGenerator_IgnoresExitCode(cur, seen, rc, produced, delta) ==
    LET newStep == stepFile + (IF rc THEN delta ELSE 0)
        updated == IF newStep = NoStep THEN None ELSE newStep - 1
        found == IF rc THEN produced ELSE poscars # {}
    IN  /\ cycle' = [seen EXCEPT !.events = Append(@, Ev("calypso", cur, FALSE, rc)),
                                 !.reread = TRUE]
        /\ stepFile' = newStep
        /\ poscars' = IF rc THEN (IF produced THEN Structs ELSE {}) ELSE poscars
        /\ orch' = IF ~found THEN "done"
                   ELSE IF updated = None \/ updated = cur THEN "failed"
                   ELSE orch

RunGenerator_CounterFirst(cur, seen, rc, produced, delta) ==
    LET newStep == stepFile + delta
        updated == IF newStep = NoStep THEN None ELSE newStep - 1
    IN  /\ cycle' = [seen EXCEPT !.events = Append(@, Ev("calypso", cur, FALSE, rc)),
                                 !.reread = rc]
        /\ IF ~rc
           THEN /\ orch' = "failed"
                /\ UNCHANGED <<stepFile, poscars>>
           ELSE /\ stepFile' = newStep
                /\ poscars' = IF produced THEN Structs ELSE {}
                /\ orch' = IF updated = None \/ updated = cur THEN "failed"
                           ELSE IF ~produced THEN "done"
                           ELSE orch

\* execute_calypso and the checks of run that follow it (lines 451-465): a
\* non-zero exit raises CalypsoError at line 199, before lines 453-454 read
\* the candidates and the counter. rc: the generator's exit code is 0; produced: POSCAR_* files are present
\* afterwards; delta: what the generator did to its step counter.
RunGenerator(cur, seen, rc, produced, delta) ==
    LET newStep == stepFile + delta
        updated == IF newStep = NoStep THEN None ELSE newStep - 1
    IN  /\ cycle' = [seen EXCEPT !.events = Append(@, Ev("calypso", cur, FALSE, rc)),
                                 !.reread = rc]
        /\ IF ~rc
           THEN /\ orch' = "failed"
                /\ UNCHANGED <<stepFile, poscars>>
           ELSE /\ stepFile' = newStep
                /\ poscars' = IF produced THEN Structs ELSE {}
                /\ orch' = IF ~produced THEN "done"
                           ELSE IF updated = None \/ updated = cur THEN "failed"
                           ELSE orch

\* ---------------------------------------------- poll cycles of run (401-467)

\* No counter file: the generation is unstarted, the generator is invoked.
GenerateUnstarted ==
    /\ orch = "running"
    /\ check_calypso_generation = None
    /\ \E rc, produced \in BOOLEAN, delta \in CounterMoves :
          RunGenerator(None, Observe(None), rc, produced, delta)
    /\ UNCHANGED <<outputs, taskDir, taskPoscars, taskConfig, slurmFile,
                   statusFile, jobs, configWrites>>

\* Lines 437-449 without the `continue` of line 449: the cycle that wrote the
\* Task config goes on to the generator.
CreateTask_NoContinue ==
    LET g == check_calypso_generation IN
    /\ orch = "running"
    /\ g # None
    /\ ~TaskConfigIsFile(g)
    /\ \E crashed, rc, produced \in BOOLEAN, delta \in CounterMoves :
          LET seen == [Observe(g) EXCEPT
                          !.events = <<Ev("prepare", g, FALSE, TRUE)>>]
          IN  IF poscars = {} \/ crashed
              THEN /\ prepare_task_from_poscars(g, crashed)
                   /\ cycle' = seen
                   /\ UNCHANGED <<stepFile, poscars>>
              ELSE /\ taskDir' = taskDir \cup {g}
                   /\ taskPoscars' = [taskPoscars EXCEPT ![g] = @ \cup poscars]
                   /\ taskConfig' = [taskConfig EXCEPT ![g] = task_config(g)]
                   /\ configWrites' = [configWrites EXCEPT ![g] = @ + 1]
                   /\ RunGenerator(g, seen, rc, produced, delta)
    /\ UNCHANGED <<outputs, slurmFile, statusFile, jobs>>

\* No task yet: create it and loop without sleeping.
CreateTask ==
    LET g == check_calypso_generation IN
    /\ orch = "running"
    /\ g # None
    /\ ~TaskConfigIsFile(g)
    /\ \E crashed \in BOOLEAN : prepare_task_from_poscars(g, crashed)
    /\ cycle' = [Observe(g) EXCEPT !.events = <<Ev("prepare", g, FALSE, TRUE)>>]
    /\ UNCHANGED <<stepFile, poscars, outputs, slurmFile, statusFile, jobs>>

\* Task exists, no Batch Submission Record: submit under the name <g>.
FirstSubmit ==
    LET g == check_calypso_generation IN
    /\ orch = "running"
    /\ g # None
    /\ TaskConfigIsFile(g)
    /\ get_current_slurm_id_from_id(g) = NoJob
    /\ Len(jobs) < MaxJobs
    /\ \E accepted, crashed \in BOOLEAN :
          /\ submit_slurm_task_from_id(g, FALSE, accepted, crashed)
          /\ cycle' = [Observe(g) EXCEPT
                          !.events = <<Ev("sbatch", g, FALSE, accepted)>>]
    /\ UNCHANGED <<stepFile, poscars, outputs, taskDir, taskPoscars, taskConfig,
                   statusFile, configWrites>>

\* Lines 422-427 with the record of the job removed before the sleep.
WaitPoll_ForgetsJob ==
    LET g == check_calypso_generation IN
    /\ orch = "running"
    /\ g # None
    /\ TaskConfigIsFile(g)
    /\ get_current_slurm_id_from_id(g) # NoJob
    /\ JobIsWaitedFor(get_job_status(get_current_slurm_id_from_id(g)))
    /\ cycle' = Observe(g)
    /\ slurmFile' = [slurmFile EXCEPT ![g] = NoJob]
    /\ UNCHANGED <<stepFile, poscars, outputs, taskDir, taskPoscars, taskConfig,
                   statusFile, jobs, orch, configWrites>>

\* Task exists, recorded job PENDING or RUNNING: sleep.
WaitPoll ==
    LET g == check_calypso_generation IN
    /\ orch = "running"
    /\ g # None
    /\ TaskConfigIsFile(g)
    /\ get_current_slurm_id_from_id(g) # NoJob
    /\ JobIsWaitedFor(get_job_status(get_current_slurm_id_from_id(g)))
    /\ cycle' = Observe(g)
    /\ UNCHANGED <<stepFile, poscars, outputs, taskDir, taskPoscars, taskConfig,
                   slurmFile, statusFile, jobs, orch, configWrites>>

\* Task exists, recorded job not waited for, status incomplete: resubmit as <g>R.
Resubmit ==
    LET g == check_calypso_generation IN
    /\ orch = "running"
    /\ g # None
    /\ TaskConfigIsFile(g)
    /\ get_current_slurm_id_from_id(g) # NoJob
    /\ ~JobIsWaitedFor(get_job_status(get_current_slurm_id_from_id(g)))
    /\ ~check_if_all_task_job_completed_from_id(g)
    /\ Len(jobs) < MaxJobs
    /\ \E accepted, crashed \in BOOLEAN :
          /\ submit_slurm_task_from_id(g, TRUE, accepted, crashed)
          /\ cycle' = [Observe(g) EXCEPT
                          !.events = <<Ev("sbatch", g, TRUE, accepted)>>]
    /\ UNCHANGED <<stepFile, poscars, outputs, taskDir, taskPoscars, taskConfig,
                   statusFile, configWrites>>

\* Task exists, recorded job not waited for, all structures success: collect the
\* outputs, then fall through to the generator. collected: copy_output_from_task_from_id
\* found every artifact it requires; otherwise it raises FileNotFoundError.
CollectAndGenerate ==
    LET g == check_calypso_generation IN
    /\ orch = "running"
    /\ g # None
    /\ TaskConfigIsFile(g)
    /\ get_current_slurm_id_from_id(g) # NoJob
    /\ ~JobIsWaitedFor(get_job_status(get_current_slurm_id_from_id(g)))
    /\ check_if_all_task_job_completed_from_id(g)
    /\ \E collected, rc, produced \in BOOLEAN, delta \in CounterMoves :
          LET seen == [Observe(g) EXCEPT
                          !.events = <<Ev("collect", g, FALSE, collected)>>]
          IN  IF collected
              THEN /\ outputs' = outputs \cup {g}
                   /\ RunGenerator(g, seen, rc, produced, delta)
              ELSE /\ cycle' = seen
                   /\ orch' = "failed"
                   /\ UNCHANGED <<outputs, stepFile, poscars>>
    /\ UNCHANGED <<taskDir, taskPoscars, taskConfig, slurmFile, statusFile, jobs,
                   configWrites>>

\* Task exists with a recorded job, and scontrol fails for another reason than
\* an invalid job id: get_job_status raises SlurmScontrolError, uncaught by run.
QueryError ==
    LET g == check_calypso_generation IN
    /\ orch = "running"
    /\ g # None
    /\ TaskConfigIsFile(g)
    /\ get_current_slurm_id_from_id(g) # NoJob
    /\ orch' = "failed"
    /\ cycle' = [Observe(g) EXCEPT !.jobState = "QueryError"]
    /\ UNCHANGED <<stepFile, poscars, outputs, taskDir, taskPoscars, taskConfig,
                   slurmFile, statusFile, jobs, configWrites>>

\* The Orchestrator process dies between two poll cycles.
OrchCrash ==
    /\ orch = "running"
    /\ orch' = "crashed"
    /\ UNCHANGED <<stepFile, poscars, outputs, taskDir, taskPoscars, taskConfig,
                   slurmFile, statusFile, jobs, cycle, configWrites>>

\* The operator starts the Orchestrator again, after a crash, an error or a
\* normal end of run: run begins with a fresh cycle.
OrchRestart ==
    /\ orch \in {"crashed", "failed", "done"}
    /\ orch' = "running"
    /\ cycle' = NoCycle
    /\ UNCHANGED <<stepFile, poscars, outputs, taskDir, taskPoscars, taskConfig,
                   slurmFile, statusFile, jobs, configWrites>>

\* ------------------------------------------------------- batch scheduler
\* The scheduler starts a pending job: task.py main loads status.json and gives
\* every POSCAR_* of the task an entry (lines 383-404). A task without
\* candidates makes main exit 1.
JobLoadsStatus(g) == IF statusFile[g].exists THEN statusFile[g].jobs ELSE NotFinished

\* An ended job: its process and the status record it held in memory are gone.
Ended(job, st) == [job EXCEPT !.state = st, !.mem = NotFinished, !.pos = 0]

\* A variant of JobStart that saves the record right after loading it.
JobStart_SavesLoadedStatus(j) ==
    /\ jobs[j].state = "PENDING"
    /\ jobs' = [jobs EXCEPT ![j] =
          IF taskPoscars[jobs[j].task] = {}
          THEN Ended(@, "FAILED")
          ELSE [@ EXCEPT !.state = "RUNNING",
                         !.mem = JobLoadsStatus(jobs[j].task),
                         !.pos = 0]]
    /\ statusFile' = [statusFile EXCEPT ![jobs[j].task] =
          IF taskPoscars[jobs[j].task] = {}
          THEN @
          ELSE [exists |-> TRUE, jobs |-> JobLoadsStatus(jobs[j].task)]]
    /\ UNCHANGED <<stepFile, poscars, outputs, taskDir, taskPoscars, taskConfig,
                   slurmFile, orch, cycle, configWrites>>

JobStart(j) ==
    /\ jobs[j].state = "PENDING"
    /\ jobs' = [jobs EXCEPT ![j] =
          IF taskPoscars[jobs[j].task] = {}
          THEN Ended(@, "FAILED")
          ELSE [@ EXCEPT !.state = "RUNNING",
                         !.mem = JobLoadsStatus(jobs[j].task),
                         !.pos = 0]]
    /\ UNCHANGED <<stepFile, poscars, outputs, taskDir, taskPoscars, taskConfig,
                   slurmFile, statusFile, orch, cycle, configWrites>>

\* One iteration of main's loop over the structures (lines 406-454), in
\* ascending order: a structure recorded success is skipped, any other is
\* processed, marked success and the whole record is saved.
JobProcess(j) ==
    LET s == jobs[j].pos + 1
        g == jobs[j].task
    IN  /\ jobs[j].state = "RUNNING"
        /\ s \in Structs
        /\ IF jobs[j].mem[s] = "success"
           THEN /\ jobs' = [jobs EXCEPT ![j].pos = s]
                /\ UNCHANGED statusFile
           ELSE LET mem == [jobs[j].mem EXCEPT ![s] = "success"]
                IN  /\ jobs' = [jobs EXCEPT ![j].pos = s, ![j].mem = mem]
                    /\ statusFile' = [statusFile EXCEPT ![g] =
                                         [exists |-> TRUE, jobs |-> mem]]
        /\ UNCHANGED <<stepFile, poscars, outputs, taskDir, taskPoscars,
                       taskConfig, slurmFile, orch, cycle, configWrites>>

\* main returns after the last structure: the job completes.
JobFinish(j) ==
    /\ jobs[j].state = "RUNNING"
    /\ jobs[j].pos = NStruct
    /\ jobs' = [jobs EXCEPT ![j] = Ended(@, "COMPLETED")]
    /\ UNCHANGED <<stepFile, poscars, outputs, taskDir, taskPoscars, taskConfig,
                   slurmFile, statusFile, orch, cycle, configWrites>>

\* A pending or running job ends early: cancelled (by the watchdog's scancel or
\* an operator), evicted, or its Job Runner died of an uncaught exception.
JobKill(j) ==
    /\ Live(j)
    /\ jobs' = [jobs EXCEPT ![j] = Ended(@, "FAILED")]
    /\ UNCHANGED <<stepFile, poscars, outputs, taskDir, taskPoscars, taskConfig,
                   slurmFile, statusFile, orch, cycle, configWrites>>

\* The scheduler forgets an ended job: scontrol answers "Invalid job id".
JobPurge(j) ==
    /\ jobs[j].state \in {"COMPLETED", "FAILED"}
    /\ jobs' = [jobs EXCEPT ![j].state = "UNKNOWN"]
    /\ UNCHANGED <<stepFile, poscars, outputs, taskDir, taskPoscars, taskConfig,
                   slurmFile, statusFile, orch, cycle, configWrites>>

\* ======================================================================
\* The Job Runner of one Task (task.py)
\* ======================================================================

\* ------------------------------------------------------------ data shapes
\* One entry of status.json; timestamp 0 is the empty string, otherwise the
\* time of the write, which differs from one Job Runner to the next.
NewEntry == [status |-> "not-finished", timestamp |-> 0, workdir |-> FALSE,
             error |-> "", warning |-> ""]

NewEntries == [s \in Structs |-> NewEntry]

\* The keys of a step's INCAR that the Job Runner reads or edits.
NoIncar == [exists |-> FALSE, ML_LMLFF |-> "absent", ML_MODE |-> "absent"]

\* The content of a step's POSCAR when it is the copy of POSCAR_ORIGINAL.
POSCAR_ORIGINAL == -1

\* A step directory. contcar: 0 when CONTCAR is absent, otherwise the Job Runner
\* execution whose child wrote it; poscar: 0 when POSCAR is absent,
\* POSCAR_ORIGINAL, or the contcar value of the file it was copied from.
NoDir == [dir |-> FALSE, custom |-> FALSE, incar |-> NoIncar, poscar |-> 0,
          contcar |-> 0, outcar |-> FALSE]

NoWd == [ml |-> FALSE, found |-> FALSE, timedOut |-> FALSE, child |-> "none",
         launches |-> 0]

NoEnd == [how |-> "none", s |-> 0, i |-> 0, log |-> <<>>]

NoFlags == [ml_train |-> FALSE, ml_refit |-> FALSE, ml_predict |-> FALSE]

\* The flag sets the Orchestrator writes (one of train, refit, predict).
TaskFlags == {[NoFlags EXCEPT !.ml_train = TRUE],
              [NoFlags EXCEPT !.ml_refit = TRUE],
              [NoFlags EXCEPT !.ml_predict = TRUE]}

Op(op, arg, id) == [op |-> op, arg |-> arg, id |-> id]

\* ------------------------------------------------------- incar.py, by key
IncarFile_get(incar, tag, default) ==
    IF incar[tag] = "absent" THEN default ELSE incar[tag]

IncarFile_set(incar, tag, value) == [incar EXCEPT ![tag] = value]

\* A variant of delete that leaves the file as it is.
IncarFile_delete_KeepsTag(incar, tag) == incar

IncarFile_delete(incar, tag) == [incar EXCEPT ![tag] = "absent"]

\* ------------------------------------------------------------ task.py
load_status == IF rStatus.exists THEN rStatus.jobs ELSE NewEntries

save_status_OnlyAfterLast(file, status_data, s) ==
    IF s = NStruct THEN [exists |-> TRUE, jobs |-> status_data] ELSE file

\* save_status as main calls it after structure s (line 453): the whole record
\* replaces the file.
save_status(file, status_data, s) == [exists |-> TRUE, jobs |-> status_data]

IsAlreadySuccess_Never(entry) == FALSE

\* line 413: the structure is skipped.
IsAlreadySuccess(entry) == entry.status = "success"

\* The except clauses of main (lines 438-444).
HandleException(entry, exc) ==
    IF exc = "VaspExecutionError"
    THEN [entry EXCEPT !.warning = "VaspExecutionError"]
    ELSE IF exc = "FileNotFoundError"
    THEN [entry EXCEPT !.status = "error", !.error = "FileNotFoundError"]
    ELSE entry

MarkProcessed_TimestampOnly(entry, now) == [entry EXCEPT !.timestamp = now]

\* Lines 450-451, which follow the try statement on every path.
MarkProcessed(entry, now) ==
    [entry EXCEPT !.timestamp = now, !.status = "success"]

\* Lines 446-448.
FlipRefit(flags) ==
    IF flags.ml_refit
    THEN [flags EXCEPT !.ml_refit = FALSE, !.ml_predict = TRUE]
    ELSE flags

\* VaspJob.__init__, lines 57-66.
VaspJobFlags(flags) ==
    IF flags.ml_predict /\ (flags.ml_train \/ flags.ml_refit) THEN NoFlags ELSE flags

\* VaspJob.run, lines 205-258: the step's INCAR after it was copied from
\* INCAR_<i> and the ML flags were applied. scf: the name of INCAR_<i> contains
\* SCF; ab: ML_ABN_<i> or ML_AB_<i> is a file; ff: ML_FF_<i> or ML_FFN_<i> is a
\* file. The templates INCAR_<i> themselves carry no ML_LMLFF or ML_MODE tag.
ConfigureIncar(flags, scf, ab, ff) ==
    LET copied == [exists |-> TRUE, ML_LMLFF |-> "absent", ML_MODE |-> "absent"]
        train == IF flags.ml_train /\ ~scf
                 THEN IncarFile_set(IncarFile_set(copied, "ML_LMLFF", ".TRUE."),
                                    "ML_MODE", "train")
                 ELSE copied
        refit == IF flags.ml_refit /\ ~scf
                 THEN IF ab
                      THEN IncarFile_set(IncarFile_set(train, "ML_LMLFF", ".TRUE."),
                                         "ML_MODE", "refit")
                      ELSE IncarFile_set(train, "ML_LMLFF", ".FALSE.")
                 ELSE train
    IN  IF flags.ml_predict /\ ~scf /\ ff
        THEN IncarFile_set(IncarFile_set(refit, "ML_LMLFF", ".TRUE."), "ML_MODE", "run")
        ELSE refit

SentinelIsFile_Never(d) == FALSE

\* line 204: custom_dest.is_file()
SentinelIsFile(d) == d.custom

\* monitor_and_restart, line 112: ml_enabled
MlEnabled(incar) == IncarFile_get(incar, "ML_LMLFF", ".FALSE.") = ".TRUE."

\* Lines 153-157 with the two tests in the other order.
PollOutcome_TimeoutFirst(ml, child, timedOut, found) ==
    IF ~ml
    THEN IF child # "running" THEN "return" ELSE "wait"
    ELSE IF timedOut /\ ~found THEN "fallback"
         ELSE IF child # "running" THEN "return"
         ELSE "sleep"

\* Line 157 without `and not found_check_string`.
PollOutcome_IgnoresMarker(ml, child, timedOut, found) ==
    IF ~ml
    THEN IF child # "running" THEN "return" ELSE "wait"
    ELSE IF child # "running" THEN "return"
         ELSE IF timedOut THEN "fallback"
         ELSE "sleep"

PollOutcome_AlwaysMonitors(ml, child, timedOut, found) ==
    IF child # "running" THEN "return"
    ELSE IF timedOut /\ ~found THEN "fallback"
    ELSE "sleep"

\* monitor_and_restart: what the supervising code does next. Without the
\* feature it blocks in process.wait(); with it, each poll checks the child
\* first and the timeout second (lines 142-157).
PollOutcome(ml, child, timedOut, found) ==
    IF ~ml
    THEN IF child # "running" THEN "return" ELSE "wait"
    ELSE IF child # "running" THEN "return"
         ELSE IF timedOut /\ ~found THEN "fallback"
         ELSE "sleep"

\* Lines 158-179 without sys.exit(1): control reaches the break of line 179.
FallbackOps_NoExit(env, jobid) ==
    <<Op("delete", "ML_LMLFF", 0), Op("delete", "ML_MODE", 0),
      Op("touch", "CUSTOM", 0)>>
    \o (IF env THEN <<Op("scancel", "SLURM_JOB_ID", jobid)>>
        ELSE <<Op("raise", "KeyError", 0)>>)

FallbackOps_NoSentinel(env, jobid) ==
    <<Op("delete", "ML_LMLFF", 0), Op("delete", "ML_MODE", 0)>>
    \o (IF env THEN <<Op("scancel", "SLURM_JOB_ID", jobid), Op("exit", "1", 0)>>
        ELSE <<Op("raise", "KeyError", 0)>>)

\* monitor_and_restart, lines 158-179: the operations of the timeout branch in
\* the order they are executed; os.environ['SLURM_JOB_ID'] raises KeyError when
\* the variable is not set, which ends the sequence.
FallbackOps(env, jobid) ==
    <<Op("delete", "ML_LMLFF", 0), Op("delete", "ML_MODE", 0),
      Op("touch", "CUSTOM", 0)>>
    \o (IF env THEN <<Op("scancel", "SLURM_JOB_ID", jobid), Op("exit", "1", 0)>>
        ELSE <<Op("raise", "KeyError", 0)>>)

\* The sequence ends the process: SystemExit and KeyError are caught neither
\* by run nor by main.
\* A variant of EndsProcess in which the KeyError of line 161 is survived.
EndsProcess_ExitOnly(ops) == ops # <<>> /\ ops[Len(ops)].op = "exit"

EndsProcess(ops) == ops # <<>> /\ ops[Len(ops)].op \in {"exit", "raise"}

Executed(ops, op, arg) == \E k \in DOMAIN ops : ops[k].op = op /\ ops[k].arg = arg

\* The step directory after the executed operations.
ApplyOps(d, ops) ==
    LET i1 == IF Executed(ops, "delete", "ML_LMLFF")
              THEN IncarFile_delete(d.incar, "ML_LMLFF") ELSE d.incar
        i2 == IF Executed(ops, "delete", "ML_MODE")
              THEN IncarFile_delete(i1, "ML_MODE") ELSE i1
    IN  [d EXCEPT !.incar = i2,
                  !.custom = @ \/ Executed(ops, "touch", "CUSTOM")]

AfterStep_IgnoresExitCode(child, outcar) ==
    IF ~outcar THEN "FileNotFoundError" ELSE ""

\* VaspJob.run, lines 290-303: the exception the step ends with, if any.
AfterStep(child, outcar) ==
    IF child = "nonzero" THEN "VaspExecutionError"
    ELSE IF ~outcar THEN "FileNotFoundError"
    ELSE ""

\* The Orchestrator's completeness check on this Task's status.json.
RAllSuccess ==
    rStatus.exists /\ \A s \in Structs : rStatus.jobs[s].status = "success"

\* ------------------------------------------------------------------- Init
RunnerInit ==
    /\ rConfig \in TaskFlags
    /\ rStatus = [exists |-> FALSE, jobs |-> NewEntries]
    /\ rJobDir = {}
    /\ rSteps = [s \in Structs |-> [i \in Steps |-> NoDir]]
    /\ rPc = "idle"
    /\ rRun = 0
    /\ rFlags = NoFlags
    /\ rMem = NewEntries
    /\ rCur = 0
    /\ rStep = 0
    /\ wd = NoWd
    /\ rStart = [exists |-> FALSE, jobs |-> NewEntries]
    /\ rProcessed = <<>>
    /\ rDone = [s \in Structs |-> [done |-> FALSE, entry |-> NewEntry]]
    /\ rEnd = NoEnd

\* The process is gone: nothing of its memory remains.
ProcessGone ==
    /\ rPc' = "idle"
    /\ rFlags' = NoFlags
    /\ rMem' = NewEntries
    /\ rCur' = 0
    /\ rStep' = 0
    /\ wd' = NoWd
    /\ rStart' = [exists |-> FALSE, jobs |-> NewEntries]
    /\ rProcessed' = <<>>

\* ---------------------------------------------------------- main (327-456)

\* The Orchestrator's job starts: main reads config.json, loads status.json and
\* gives every POSCAR_* an entry.
RunnerStart ==
    /\ rPc = "idle"
    /\ rRun < MaxRuns
    /\ ~RAllSuccess
    /\ rRun' = rRun + 1
    /\ rFlags' = rConfig
    /\ rMem' = load_status
    /\ rCur' = 0
    /\ rStep' = 0
    /\ rPc' = "loop"
    /\ wd' = NoWd
    /\ rStart' = rStatus
    /\ rProcessed' = <<>>
    /\ rEnd' = NoEnd
    /\ UNCHANGED <<rConfig, rStatus, rJobDir, rSteps, rDone>>

\* The end of a loop iteration for structure s that raised exc ("" for none):
\* the except clause, the refit flip, timestamp and status, save_status.
FinishStructure(s, mem, exc) ==
    LET entry == MarkProcessed(HandleException(mem[s], exc), rRun)
        data  == [mem EXCEPT ![s] = entry]
    IN  /\ rMem' = data
        /\ rStatus' = save_status(rStatus, data, s)
        /\ rFlags' = FlipRefit(rFlags)
        /\ rCur' = s
        /\ rStep' = 0
        /\ rPc' = "loop"
        /\ wd' = NoWd
        /\ rDone' = [rDone EXCEPT ![s] = [done |-> TRUE, entry |-> entry]]

\* Lines 412-415: the next structure is recorded success and is skipped.
SkipStructure ==
    LET s == rCur + 1 IN
    /\ rPc = "loop"
    /\ s \in Structs
    /\ IsAlreadySuccess(rMem[s])
    /\ rCur' = s
    /\ UNCHANGED <<rConfig, rStatus, rJobDir, rSteps, rPc, rRun, rFlags, rMem,
                   rStep, wd, rStart, rProcessed, rDone, rEnd>>

\* Lines 417-436: the next structure is processed; VaspJob is constructed.
\* potcar: POTCAR is a file of the shared input directory, otherwise the
\* constructor raises FileNotFoundError before it makes the job directory.
StartStructure ==
    LET s == rCur + 1 IN
    /\ rPc = "loop"
    /\ s \in Structs
    /\ ~IsAlreadySuccess(rMem[s])
    /\ rProcessed' = Append(rProcessed, s)
    /\ \E potcar \in BOOLEAN :
          LET mem == [rMem EXCEPT ![s].workdir = TRUE] IN
          IF potcar
          THEN /\ rJobDir' = rJobDir \cup {s}
               /\ rMem' = mem
               /\ rStep' = 1
               /\ rPc' = "step"
               /\ UNCHANGED <<rStatus, rFlags, rCur, wd, rDone>>
          ELSE /\ FinishStructure(s, mem, "FileNotFoundError")
               /\ UNCHANGED rJobDir
    /\ UNCHANGED <<rConfig, rSteps, rRun, rStart, rEnd>>

\* main returns after the last structure and the batch job completes.
RunnerExit ==
    /\ rPc = "loop"
    /\ rCur = NStruct
    /\ ProcessGone
    /\ rEnd' = [NoEnd EXCEPT !.how = "returned"]
    /\ UNCHANGED <<rConfig, rStatus, rJobDir, rSteps, rRun, rDone>>

\* ------------------------------------------------- VaspJob.run (191-312)

\* Lines 192-288 for step i of the structure: the directory is made; unless it
\* holds the sentinel, INCAR is copied and configured and the input structure
\* is taken from the previous step, whose missing CONTCAR raises
\* FileNotFoundError; then monitor_and_restart launches the command.
\* Lines 265-275: the step's POSCAR after run prepared the directory d of step
\* i. With the sentinel nothing is copied; step 1 takes POSCAR_ORIGINAL, a
\* later step the previous step's CONTCAR when that is a file.
InputStructure(s, i, d) ==
    IF SentinelIsFile(d) THEN d.poscar
    ELSE IF i = 1 THEN POSCAR_ORIGINAL
    ELSE IF rSteps[s][i - 1].contcar = 0 THEN d.poscar
    ELSE rSteps[s][i - 1].contcar

BeginStep ==
    LET s == rCur + 1
        i == rStep
        d == rSteps[s][i]
    IN  /\ rPc = "step"
        /\ \E scf, ab, ff \in BOOLEAN :
              LET incar == IF SentinelIsFile(d) THEN d.incar
                           ELSE ConfigureIncar(VaspJobFlags(rFlags), scf, ab, ff)
                  made == [d EXCEPT !.dir = TRUE, !.incar = incar]
              IN  /\ rSteps' = [rSteps EXCEPT ![s][i] =
                                   [made EXCEPT !.poscar = InputStructure(s, i, d)]]
                  /\ IF ~SentinelIsFile(d) /\ i > 1 /\ rSteps[s][i - 1].contcar = 0
                     THEN FinishStructure(s, rMem, "FileNotFoundError")
                     ELSE /\ rPc' = "watch"
                          /\ wd' = [ml |-> MlEnabled(incar), found |-> FALSE,
                                    timedOut |-> FALSE, child |-> "running",
                                    launches |-> 1]
                          /\ UNCHANGED <<rStatus, rFlags, rMem, rCur, rStep, rDone>>
        /\ UNCHANGED <<rConfig, rJobDir, rRun, rStart, rProcessed, rEnd>>

\* ----------------------------------- VaspJob.monitor_and_restart (104-186)

\* The simulation command exits. zero: its exit code is 0; contcar, outcar: it
\* wrote the artifact.
ChildExits ==
    LET s == rCur + 1
        i == rStep
    IN  /\ rPc = "watch"
        /\ wd.child = "running"
        /\ \E zero, contcar, outcar \in BOOLEAN :
              /\ wd' = [wd EXCEPT !.child = IF zero THEN "zero" ELSE "nonzero"]
              /\ rSteps' = [rSteps EXCEPT ![s][i].contcar = IF contcar THEN rRun ELSE @,
                                          ![s][i].outcar = @ \/ outcar]
        /\ UNCHANGED <<rConfig, rStatus, rJobDir, rPc, rRun, rFlags, rMem,
                       rCur, rStep, rStart, rProcessed, rDone, rEnd>>

\* The reader thread finds check_string in a line of the child's output.
ReaderSeesMarker ==
    /\ rPc = "watch"
    /\ ~wd.found
    /\ wd' = [wd EXCEPT !.found = TRUE]
    /\ UNCHANGED <<rConfig, rStatus, rJobDir, rSteps, rPc, rRun, rFlags, rMem,
                   rCur, rStep, rStart, rProcessed, rDone, rEnd>>

\* More than `timeout` seconds have passed since the launch.
TimeoutElapses ==
    /\ rPc = "watch"
    /\ ~wd.timedOut
    /\ wd' = [wd EXCEPT !.timedOut = TRUE]
    /\ UNCHANGED <<rConfig, rStatus, rJobDir, rSteps, rPc, rRun, rFlags, rMem,
                   rCur, rStep, rStart, rProcessed, rDone, rEnd>>

\* The files a step may leave for the next generation (lines 305-306).
SideArtifacts == {"ML_ABN", "ML_FFN"}

\* Lines 290-312 with the export placed before the test for OUTCAR.
ExportedBy_BeforeOutcarTest(exc, present) ==
    IF exc # "VaspExecutionError" THEN present ELSE {}

\* Lines 305-312: the side-artifacts run copies to ml_output, reached when no
\* exception was raised. present: those that are files in the step directory;
\* ml_output is the input directory (line 432), never None.
ExportedBy(exc, present) == IF exc = "" THEN present ELSE {}

\* monitor_and_restart returns the exit code and run continues (lines 290-312):
\* the next step, the end of the chain, or an exception that main handles.
\* The copies of lines 305-312 go to the input directory, whose ML files are
\* inputs of ConfigureIncar (ab, ff); RunSpec follows them.
StepReturns ==
    LET s == rCur + 1
        i == rStep
        exc == AfterStep(wd.child, rSteps[s][i].outcar)
    IN  /\ rPc = "watch"
        /\ PollOutcome(wd.ml, wd.child, wd.timedOut, wd.found) = "return"
        /\ IF exc = "" /\ i < NSteps
           THEN /\ rStep' = i + 1
                /\ rPc' = "step"
                /\ wd' = NoWd
                /\ UNCHANGED <<rStatus, rFlags, rMem, rCur, rDone>>
           ELSE FinishStructure(s, rMem, exc)
        /\ UNCHANGED <<rConfig, rJobDir, rSteps, rRun, rStart, rProcessed,
                       rEnd>>

\* A supervising poll takes the timeout branch (lines 157-179). env: the
\* scheduler set SLURM_JOB_ID in the environment of this process.
WatchdogFallback ==
    LET s == rCur + 1
        i == rStep
    IN  /\ rPc = "watch"
        /\ PollOutcome(wd.ml, wd.child, wd.timedOut, wd.found) = "fallback"
        /\ \E env \in BOOLEAN :
              LET ops == FallbackOps(env, rRun) IN
              /\ rSteps' = [rSteps EXCEPT ![s][i] = ApplyOps(@, ops)]
              /\ IF EndsProcess(ops)
                 THEN /\ rEnd' = [how |-> "fallback", s |-> s, i |-> i,
                                  log |-> ops]
                      /\ ProcessGone
                      /\ UNCHANGED <<rStatus, rDone>>
                 ELSE IF wd.launches < Attempts
                 \* line 179: break, and the next iteration of the loop of
                 \* line 117 launches the command again
                 THEN /\ wd' = [wd EXCEPT !.launches = @ + 1,
                                          !.found = FALSE, !.timedOut = FALSE]
                      /\ UNCHANGED <<rStatus, rPc, rFlags, rMem, rCur, rStep,
                                     rStart, rProcessed, rDone, rEnd>>
                 \* the loop ends and monitor_and_restart returns None
                 ELSE /\ FinishStructure(s, rMem, "VaspExecutionError")
                      /\ UNCHANGED <<rStart, rProcessed, rEnd>>
        /\ UNCHANGED <<rConfig, rJobDir, rRun>>

\* The batch job is killed from outside (eviction, time limit, cancellation),
\* at any point between two operations of the Job Runner. A child that was
\* running may have left artifacts.
RunnerKilled ==
    /\ rPc # "idle"
    /\ IF rPc = "watch" /\ wd.child = "running"
       THEN \E contcar, outcar \in BOOLEAN :
               rSteps' = [rSteps EXCEPT ![rCur + 1][rStep].contcar =
                                            IF contcar THEN rRun ELSE @,
                                        ![rCur + 1][rStep].outcar = @ \/ outcar]
       ELSE UNCHANGED rSteps
    /\ ProcessGone
    /\ rEnd' = [NoEnd EXCEPT !.how = "killed"]
    /\ UNCHANGED <<rConfig, rStatus, rJobDir, rRun, rDone>>

\* ------------------ copy_output_from_task_from_id (scheduler.py, 263-320)

\* What the workspace holds for one structure: POSCAR_<s>, and the step
\* directory CONTCAR_<s> and OUTCAR_<s> were copied from, 0 when not copied.
NoOut == [poscar |-> FALSE, contcar |-> 0, outcar |-> 0]

NoCollect == [state |-> "none", raised |-> 0, calypso |-> FALSE]

CollectInit ==
    /\ rOut = [s \in Structs |-> NoOut]
    /\ rCollect = NoCollect

\* Line 276: the step_* directories of job_<s>.
StepFolders(s) == {i \in Steps : rSteps[s][i].dir}

Max(S) == CHOOSE m \in S : \A x \in S : x <= m

\* Lines 281-284: max(step_folders, key=extract_step_number).
MaxStepFolder(s) == Max(StepFolders(s))

CollectJob_ContcarRequired(s, out) ==
    IF s \notin rJobDir \/ StepFolders(s) = {}
    THEN [out |-> out, raised |-> FALSE]
    ELSE LET m == MaxStepFolder(s)
             p == [out EXCEPT ![s].poscar = TRUE]
         IN  IF rSteps[s][m].contcar = 0 \/ ~rSteps[s][m].outcar
             THEN [out |-> p, raised |-> TRUE]
             ELSE [out |-> [p EXCEPT ![s].contcar = m, ![s].outcar = m],
                   raised |-> FALSE]

\* One iteration of the loop over job_* (lines 266-318): a job without step
\* directories is passed over; POSCAR_ORIGINAL is copied; CONTCAR of the
\* selected step is copied when it exists; OUTCAR is copied, and its absence
\* raises FileNotFoundError.
CollectJob(s, out) ==
    IF s \notin rJobDir \/ StepFolders(s) = {}
    THEN [out |-> out, raised |-> FALSE]
    ELSE LET m == MaxStepFolder(s)
             p == [out EXCEPT ![s].poscar = TRUE]
             c == IF rSteps[s][m].contcar # 0
                  THEN [p EXCEPT ![s].contcar = m] ELSE p
         IN  IF ~rSteps[s][m].outcar
             THEN [out |-> c, raised |-> TRUE]
             ELSE [out |-> [c EXCEPT ![s].outcar = m], raised |-> FALSE]

\* The loop over the job directories in the order glob yields them; raised is
\* the structure whose iteration raised, 0 when the loop ran to its end.
RECURSIVE copy_output_from_task_from_id(_, _)
copy_output_from_task_from_id(order, out) ==
    IF order = <<>>
    THEN [out |-> out, raised |-> 0]
    ELSE LET r == CollectJob(Head(order), out)
         IN  IF r.raised
             THEN [out |-> r.out, raised |-> Head(order)]
             ELSE copy_output_from_task_from_id(Tail(order), r.out)

\* The orders in which glob("job_*") can yield the job directories.
GlobOrders ==
    {o \in [1..NStruct -> Structs] : \A k, l \in 1..NStruct : o[k] = o[l] => k = l}

\* The poll cycle of run that finds the Task's job ended and every structure
\* success (lines 422-436) collects the outputs; when the collection returns,
\* the cycle goes on to execute_calypso (line 452).
CollectTask ==
    /\ rPc = "idle"
    /\ RAllSuccess
    /\ rCollect.state = "none"
    /\ \E order \in GlobOrders :
          LET r == copy_output_from_task_from_id(order, rOut) IN
          /\ rOut' = r.out
          /\ rCollect' = [state |-> IF r.raised = 0 THEN "done"
                                    ELSE "FileNotFoundError",
                          raised |-> r.raised,
                          calypso |-> r.raised = 0]

\* ---------------------------------- submit_job (scheduler.py, lines 38-73)

\* The words sbatch's stdout is made of, as output.split() yields them.
Words == {"Submitted", "batch", "job", "7", "12x"}

\* int(word) for the words above: the value, or ValueError when the word is
\* not the literal of an integer.
IntOf(word) == IF word = "7" THEN [ok |-> TRUE, value |-> 7]
               ELSE [ok |-> FALSE, value |-> 0]

StdoutTexts == UNION {[1..n -> Words] : n \in 0..MaxWords}

NoResult == [kind |-> "none", id |-> 0]

\* Lines 52-71: sbatch is run with check=True, its stdout is split and parsed.
submit_job(rc, words) ==
    IF rc # 0
    THEN [kind |-> "SlurmSubmissionError", id |-> 0]
    ELSE IF /\ Len(words) >= 4
            /\ words[1] = "Submitted"
            /\ words[2] = "batch"
            /\ words[3] = "job"
         THEN IF IntOf(words[4]).ok
              THEN [kind |-> "return", id |-> IntOf(words[4]).value]
              ELSE [kind |-> "ValueError", id |-> 0]
         ELSE [kind |-> "SlurmSubmissionError", id |-> 0]

\* No call of submit_job is under way.
SubmitIdle ==
    /\ sbIn = [rc |-> 0, words |-> <<>>]
    /\ sbPc = "done"
    /\ sbTmp = FALSE
    /\ sbOut = NoResult

SubmitStart ==
    /\ sbIn \in [rc : {0, 1}, words : StdoutTexts]
    /\ sbPc = "start"
    /\ sbTmp = FALSE
    /\ sbOut = NoResult

\* Lines 39-50: the template is filled in and written to a temporary file
\* that outlives its close (delete=False).
SubmitWritesScript ==
    /\ sbPc = "start"
    /\ sbPc' = "script"
    /\ sbTmp' = TRUE
    /\ UNCHANGED <<sbIn, sbOut>>

\* Lines 52-73: the try statement; its finally clause removes the file.
SubmitRunsSbatch ==
    /\ sbPc = "script"
    /\ sbPc' = "done"
    /\ sbOut' = submit_job(sbIn.rc, sbIn.words)
    /\ sbTmp' = FALSE
    /\ UNCHANGED sbIn

\* ------------------- get_job_status (scheduler.py, lines 76-106), as a call

\* A piece of scontrol's output: a KEY=VALUE token, or a run of words that
\* holds no "=".
Token(key, value) == [eq |-> TRUE, key |-> key, value |-> value]

Phrase(words) == [eq |-> FALSE, key |-> words, value |-> ""]

\* What `scontrol show job` prints for a job it knows.
RecordPieces == {Token("JobId", "7"), Token("JobState", "RUNNING"),
                 Token("JobState", "COMPLETED"), Phrase("JobState")}

\* What it prints when it cannot show the job.
MessagePieces == {Phrase("slurm_load_jobs error:"),
                  Phrase("Invalid job id specified"),
                  Phrase("Socket timed out")}

Records == UNION {[1..n -> RecordPieces] : n \in 0..MaxPieces}

Messages == UNION {[1..n -> MessagePieces] : n \in 0..MaxPieces}

\* `phrase in text`
Contains(text, phrase) == \E i \in 1..Len(text) : text[i] = Phrase(phrase)

\* Lines 76-83: the dictionary of the KEY=VALUE tokens; a later token of a
\* key overwrites an earlier one. Read at one key, with a default.
parse_scontrol_output_get(output, key, default) ==
    LET at == {i \in 1..Len(output) : output[i].eq /\ output[i].key = key}
    IN  IF at = {} THEN default ELSE output[Max(at)].value

\* Lines 102-106 without the test of line 104.
get_job_status_call_StderrNotRead(rc, stdout, stderr) ==
    IF rc # 0
    THEN [kind |-> "SlurmScontrolError", state |-> "-"]
    ELSE IF \/ Contains(stdout, "slurm_load_jobs error:")
            \/ Contains(stdout, "Invalid job id specified")
         THEN [kind |-> "return", state |-> "UNKNOWN"]
         ELSE [kind |-> "return",
               state |-> parse_scontrol_output_get(stdout, "JobState",
                                                   "UNKNOWN")]

\* Lines 85-106: scontrol is run with check=True; a non-zero exit raises
\* CalledProcessError, which the except clause handles.
get_job_status_call(rc, stdout, stderr) ==
    IF rc # 0
    THEN IF Contains(stderr, "Invalid job id specified")
         THEN [kind |-> "return", state |-> "UNKNOWN"]
         ELSE [kind |-> "SlurmScontrolError", state |-> "-"]
    ELSE IF \/ Contains(stdout, "slurm_load_jobs error:")
            \/ Contains(stdout, "Invalid job id specified")
         THEN [kind |-> "return", state |-> "UNKNOWN"]
         ELSE [kind |-> "return",
               state |-> parse_scontrol_output_get(stdout, "JobState",
                                                   "UNKNOWN")]

NoAnswer == [kind |-> "none", state |-> "-"]

\* No call of get_job_status is under way.
QueryIdle ==
    /\ qIn = [rc |-> 0, stdout |-> <<>>, stderr |-> <<>>]
    /\ qPc = "idle"
    /\ qOut = NoAnswer

\* scontrol prints a job record or a message on stdout, and a message on
\* stderr.
QueryStart ==
    /\ qIn \in [rc : {0, 1}, stdout : Records \cup Messages, stderr : Messages]
    /\ qPc = "start"
    /\ qOut = NoAnswer

QueryJob ==
    /\ qPc = "start"
    /\ qPc' = "done"
    /\ qOut' = get_job_status_call(qIn.rc, qIn.stdout, qIn.stderr)
    /\ UNCHANGED qIn

\* ------------------------------- IncarFile on the text of a file (incar.py)

\* Python values: what get returns and set is given.
BoolV(b) == [type |-> "bool", bool |-> b, int |-> 0, text |-> ""]

IntV(n) == [type |-> "int", bool |-> FALSE, int |-> n, text |-> ""]

FloatV(t) == [type |-> "float", bool |-> FALSE, int |-> 0, text |-> t]

StrV(s) == [type |-> "str", bool |-> FALSE, int |-> 0, text |-> s]

Absent == [type |-> "None", bool |-> FALSE, int |-> 0, text |-> ""]

\* A line of the file, as the patterns of lines 34, 51 and 76 take it apart:
\* leading whitespace, the key before "=" (empty when the line is no
\* assignment), "=" with the whitespace around it, the text up to the first
\* "#" or "!", the rest of the line from that character on, and whether the
\* line ends in a newline.
Line(indent, key, eq, val, comment) ==
    [indent |-> indent, key |-> key, eq |-> eq, val |-> val,
     comment |-> comment, nl |-> TRUE]

FileLines ==
    { Line("", "ML_MODE", " = ", "run", ""),
      Line("  ", "ML_MODE", "=", "12 ", "# c"),
      Line("", "ML_MODE", " = ", ".true.", "! c"),
      Line("", "NSW", " = ", "12", ""),
      Line("", "", "", "", "# ML_MODE = 12") }

\* Iterating over the file yields lines that end in a newline, except
\* possibly the last.
Files ==
    LET full == UNION {[1..n -> FileLines] : n \in 0..MaxLines}
    IN  full \cup {[f EXCEPT ![Len(f)].nl = FALSE] : f \in full \ {<<>>}}

Tags == {"ML_MODE", "NSW"}

Values == {BoolV(TRUE), BoolV(FALSE), IntV(12), IntV(-3), StrV("run"),
           StrV("12"), StrV(".TRUE."), StrV("1e5"), StrV("a#b")}

\* str.strip, str.upper, str(int) and int(str) on the texts above.
strip(t) == IF t = "12 " THEN "12" ELSE t

upper(t) == CASE t = ".true." -> ".TRUE."
              [] t = "run" -> "RUN"
              [] t = "1e5" -> "1E5"
              [] t = "a" -> "A"
              [] t = "a#b" -> "A#B"
              [] OTHER -> t

str(n) == IF n = 12 THEN "12" ELSE "-3"

int(t) == IF t = "12" THEN 12 ELSE -3

\* re.fullmatch of the pattern of line 25, and of those of lines 27-28.
IsIntLiteral(t) == t \in {"12", "-3"}

IsFloatLiteral(t) == t \in {"1e5"}

BOOL_MAP == [t \in {".TRUE.", ".FALSE."} |-> t = ".TRUE."]

INV_BOOL_MAP == [b \in BOOLEAN |-> IF b THEN ".TRUE." ELSE ".FALSE."]

\* Lines 20-30.
parse_value(raw) ==
    LET v == strip(raw)
        up == upper(v)
    IN  IF up \in DOMAIN BOOL_MAP THEN BoolV(BOOL_MAP[up])
        ELSE IF IsIntLiteral(v) THEN IntV(int(v))
        ELSE IF IsFloatLiteral(v) THEN FloatV(v)
        ELSE StrV(v)

\* Line 34: the pattern matches a line that starts with the tag and "=" and
\* has at least one character that is neither "#" nor "!" after the "=".
GetMatches(line, tag) ==
    /\ line.key = tag
    /\ \/ line.eq = " = "
       \/ line.val # ""
       \/ line.comment = "" /\ line.nl

\* Lines 51 and 76: the patterns match a line that starts with the tag and
\* "=".
TagMatches(line, tag) == line.key = tag

\* Lines 32-41 with the scan returning the last match instead of the first.
IncarText_get_LastMatch(lines, tag, default) ==
    LET at == {i \in 1..Len(lines) : GetMatches(lines[i], tag)}
    IN  IF at = {} THEN default
        ELSE parse_value(lines[CHOOSE i \in at : \A k \in at : i >= k].val)

\* Lines 32-41.
IncarText_get(lines, tag, default) ==
    LET at == {i \in 1..Len(lines) : GetMatches(lines[i], tag)}
    IN  IF at = {} THEN default
        ELSE parse_value(lines[CHOOSE i \in at : \A k \in at : i <= k].val)

\* Lines 48-50.
val_str(value) ==
    CASE value.type = "bool" -> INV_BOOL_MAP[value.bool]
      [] value.type = "int" -> str(value.int)
      [] OTHER -> value.text

\* The text of a value up to its first "#" or "!", and the rest.
CutAtComment(t) == IF t = "a#b" THEN [head |-> "a", rest |-> "#b"]
                   ELSE [head |-> t, rest |-> ""]

\* The line `{indent}{key} = {val_str}{comment}\n` of lines 60 and 70.
Written(indent, key, text, comment) ==
    [indent |-> indent, key |-> key, eq |-> " = ",
     val |-> CutAtComment(text).head,
     comment |-> CutAtComment(text).rest \o comment, nl |-> TRUE]

\* Lines 43-72 with line 70 writing over the last line instead of after it.
IncarText_set_OverwritesLast(lines, tag, value) ==
    LET found == \E i \in 1..Len(lines) : TagMatches(lines[i], tag)
        kept == [i \in 1..Len(lines) |->
                    IF TagMatches(lines[i], tag)
                    THEN Written(lines[i].indent, lines[i].key,
                                 val_str(value), lines[i].comment)
                    ELSE lines[i]]
    IN  IF found THEN kept
        ELSE IF lines = <<>> THEN <<Written("", tag, val_str(value), "")>>
        ELSE [kept EXCEPT ![Len(kept)] = Written("", tag, val_str(value), "")]

\* Lines 43-72.
IncarText_set(lines, tag, value) ==
    LET found == \E i \in 1..Len(lines) : TagMatches(lines[i], tag)
        kept == [i \in 1..Len(lines) |->
                    IF TagMatches(lines[i], tag)
                    THEN Written(lines[i].indent, lines[i].key,
                                 val_str(value), lines[i].comment)
                    ELSE lines[i]]
        ended == IF kept # <<>> /\ ~kept[Len(kept)].nl
                 THEN [kept EXCEPT ![Len(kept)].nl = TRUE]
                 ELSE kept
    IN  IF found THEN kept
        ELSE Append(ended, Written("", tag, val_str(value), ""))

\* Lines 74-81 keeping the first line of the tag.
IncarText_delete_KeepsFirst(lines, tag) ==
    LET at == {i \in 1..Len(lines) : TagMatches(lines[i], tag)}
        first == IF at = {} THEN 0 ELSE CHOOSE i \in at : \A k \in at : i <= k
        keep == {i \in 1..Len(lines) : ~TagMatches(lines[i], tag) \/ i = first}
        Nth[n \in 0..Len(lines)] ==
            IF n = 0 THEN 0
            ELSE CHOOSE i \in keep : i > Nth[n-1] /\ \A k \in keep : k > Nth[n-1] => i <= k
    IN  [n \in 1..Cardinality(keep) |-> lines[Nth[n]]]

\* Lines 74-81.
IncarText_delete(lines, tag) ==
    SelectSeq(lines, LAMBDA line : ~TagMatches(line, tag))

\* No IncarFile is under examination.
IncarIdle ==
    /\ icFile = <<>>
    /\ icTag = ""
    /\ icVal = Absent
    /\ icCur = <<>>
    /\ icOp = "idle"
    /\ icGot = Absent
    /\ icGotAt = "-"

IncarStart ==
    /\ icFile \in Files
    /\ icTag \in Tags
    /\ icVal \in Values
    /\ icCur = icFile
    /\ icOp = "none"
    /\ icGot = Absent
    /\ icGotAt = "-"

\* get(tag), once before the edit and once after it.
IncarGet ==
    /\ icOp \in {"none", "set", "delete"}
    /\ icGotAt # icOp
    /\ icGot' = IncarText_get(icCur, icTag, Absent)
    /\ icGotAt' = icOp
    /\ UNCHANGED <<icFile, icTag, icVal, icCur, icOp>>

\* set(tag, value)
IncarSet ==
    /\ icOp = "none"
    /\ icCur' = IncarText_set(icCur, icTag, icVal)
    /\ icOp' = "set"
    /\ UNCHANGED <<icFile, icTag, icVal, icGot, icGotAt>>

\* delete(tag)
IncarDelete ==
    /\ icOp = "none"
    /\ icCur' = IncarText_delete(icCur, icTag)
    /\ icOp' = "delete"
    /\ UNCHANGED <<icFile, icTag, icVal, icGot, icGotAt>>

\* ------------- VaspJob.run after the launch of a step (task.py, 279-312)

\* No call of VaspJob.run is examined.
RunIdle ==
    /\ vjPc = "idle"
    /\ vjStep = 0
    /\ vjRan = <<>>
    /\ vjExport = {}
    /\ vjExc = ""

\* run enters its loop over the INCAR_<i> stages.
RunStart ==
    /\ vjPc = "step"
    /\ vjStep = 1
    /\ vjRan = <<>>
    /\ vjExport = {}
    /\ vjExc = ""

\* Lines 199-288: the step directory is prepared and monitor_and_restart is
\* called.
RunLaunchesStep ==
    /\ vjPc = "step"
    /\ vjPc' = "watch"
    /\ UNCHANGED <<vjStep, vjRan, vjExport, vjExc>>

\* Lines 290-312: monitor_and_restart returned the child's exit code.
RunStepReturns ==
    /\ vjPc = "watch"
    /\ \E child \in {"zero", "nonzero"}, outcar \in BOOLEAN,
          present \in SUBSET SideArtifacts :
          LET exc == AfterStep(child, outcar) IN
          /\ vjRan' = Append(vjRan, [child |-> child, outcar |-> outcar,
                                     present |-> present])
          /\ vjExport' = vjExport \cup
                            {<<a, vjStep>> : a \in ExportedBy(exc, present)}
          /\ IF exc = "" /\ vjStep < NSteps
             THEN /\ vjStep' = vjStep + 1
                  /\ vjPc' = "step"
                  /\ UNCHANGED vjExc
             ELSE /\ vjPc' = "done"
                  /\ vjExc' = exc
                  /\ UNCHANGED vjStep

\* ------------------ status.json by its keys (task.py 383-454, scheduler.py 235-260)
\* A "jobs" dictionary without keys.
NoJobs == [s \in {} |-> NewEntry]

NoStatusFile == [exists |-> FALSE, jobs |-> NoJobs]

\* A variant of the loop of lines 396-404 that stops after the first file.
FillEntries_FirstOnly(data, files) ==
    [s \in DOMAIN data \cup {t \in files : \A u \in files : t <= u} |->
        IF s \in DOMAIN data THEN data[s] ELSE NewEntry]

\* Lines 396-404: every POSCAR_* file without an entry gets a not-finished one.
FillEntries(data, files) ==
    [s \in DOMAIN data \cup files |->
        IF s \in DOMAIN data THEN data[s] ELSE NewEntry]

\* check_if_all_task_job_completed_from_id on the file: the loop of line 249
\* runs over the keys the file holds.
all_task_job_completed(file) ==
    /\ file.exists
    /\ \A s \in DOMAIN file.jobs : file.jobs[s].status = "success"

\* The files main's loop has not iterated over yet; it takes them in
\* ascending order of their number (lines 386-389).
StRest == {s \in stPoscars : s > stLast}

StProcessGone ==
    /\ stPc' = "gone"
    /\ stMem' = NoJobs
    /\ stLast' = 0

StatusIdle ==
    /\ stPoscars = {}
    /\ stFile = NoStatusFile
    /\ stMem = NoJobs
    /\ stPc = "idle"
    /\ stLast = 0
    /\ stRuns = 0
    /\ stChecked = "none"

\* The Task's first batch job starts; its poscars directory holds any set of
\* candidates, none included.
StatusStart ==
    /\ stPoscars \in SUBSET Structs
    /\ stFile = NoStatusFile
    /\ stMem = NoJobs
    /\ stPc = "start"
    /\ stLast = 0
    /\ stRuns = 1
    /\ stChecked = "none"

\* Lines 383-404: load_status, setdefault("jobs"), exit 1 without candidates,
\* one entry per candidate.
MainLoads ==
    /\ stPc = "start"
    /\ IF stPoscars = {}
       THEN StProcessGone
       ELSE /\ stMem' = FillEntries(stFile.jobs, stPoscars)
            /\ stPc' = "loop"
            /\ stLast' = 0
    /\ UNCHANGED <<stPoscars, stFile, stRuns, stChecked>>

\* One iteration of the loop of lines 406-454. exc: how VaspJob and its run
\* ended. A key without an entry is read as not-finished at line 412 and
\* raises KeyError at line 423.
MainStructure ==
    /\ stPc = "loop"
    /\ StRest # {}
    /\ LET s == CHOOSE t \in StRest : \A u \in StRest : t <= u
           job_status == IF s \in DOMAIN stMem THEN stMem[s].status
                         ELSE "not-finished"
       IN  IF job_status = "success"
           THEN /\ stLast' = s
                /\ UNCHANGED <<stFile, stMem, stPc>>
           ELSE IF s \notin DOMAIN stMem
           THEN /\ StProcessGone
                /\ UNCHANGED stFile
           ELSE \E exc \in {"", "VaspExecutionError", "FileNotFoundError"} :
                   LET placed == [stMem[s] EXCEPT !.workdir = TRUE]
                       entry == MarkProcessed(HandleException(placed, exc), stRuns)
                       data == [stMem EXCEPT ![s] = entry]
                   IN  /\ stMem' = data
                       /\ stFile' = [exists |-> TRUE, jobs |-> data]
                       /\ stLast' = s
                       /\ UNCHANGED stPc
    /\ UNCHANGED <<stPoscars, stRuns, stChecked>>

\* The loop is over: main returns.
MainReturns ==
    /\ stPc = "loop"
    /\ StRest = {}
    /\ StProcessGone
    /\ UNCHANGED <<stPoscars, stFile, stRuns, stChecked>>

\* The batch job ends while main is in its loop: cancelled, evicted, or the
\* watchdog's exit.
MainKilled ==
    /\ stPc = "loop"
    /\ StProcessGone
    /\ UNCHANGED <<stPoscars, stFile, stRuns, stChecked>>

\* The poll cycle that finds the job neither PENDING nor RUNNING (scheduler.py
\* 428-436): collect when the check succeeds, resubmit otherwise.
OrchChecks ==
    /\ stPc = "gone"
    /\ IF all_task_job_completed(stFile)
       THEN /\ stChecked' = "complete"
            /\ stPc' = "collect"
            /\ UNCHANGED stRuns
       ELSE /\ stChecked' = "incomplete"
            /\ IF stRuns < MaxRuns
               THEN stPc' = "start" /\ stRuns' = stRuns + 1
               ELSE stPc' = "end" /\ UNCHANGED stRuns
    /\ UNCHANGED <<stPoscars, stFile, stMem, stLast>>

\* ======================================================================
\* Specifications
\* ======================================================================
vars == <<orchVars, runnerVars, collectVars, submitVars, queryVars, incarVars,
          runVars, statusVars>>

\* What the actions of one component leave alone.
notOrch ==
    <<runnerVars, collectVars, submitVars, queryVars, incarVars, runVars,
      statusVars>>

notRunner ==
    <<orchVars, collectVars, submitVars, queryVars, incarVars, runVars,
      statusVars>>

notSubmit ==
    <<orchVars, runnerVars, collectVars, queryVars, incarVars, runVars,
      statusVars>>

notQuery ==
    <<orchVars, runnerVars, collectVars, submitVars, incarVars, runVars,
      statusVars>>

notIncar ==
    <<orchVars, runnerVars, collectVars, submitVars, queryVars, runVars,
      statusVars>>

notRun ==
    <<orchVars, runnerVars, collectVars, submitVars, queryVars, incarVars,
      statusVars>>

notStatus ==
    <<orchVars, runnerVars, collectVars, submitVars, queryVars, incarVars,
      runVars>>

Init ==
    /\ OrchInit /\ RunnerInit /\ CollectInit
    /\ SubmitIdle /\ QueryIdle /\ IncarIdle /\ RunIdle /\ StatusIdle

Next ==
    \/ GenerateUnstarted /\ UNCHANGED notOrch
    \/ CreateTask /\ UNCHANGED notOrch
    \/ FirstSubmit /\ UNCHANGED notOrch
    \/ WaitPoll /\ UNCHANGED notOrch
    \/ Resubmit /\ UNCHANGED notOrch
    \/ CollectAndGenerate /\ UNCHANGED notOrch
    \/ QueryError /\ UNCHANGED notOrch
    \/ OrchCrash /\ UNCHANGED notOrch
    \/ OrchRestart /\ UNCHANGED notOrch
    \/ \E j \in DOMAIN jobs : JobStart(j) /\ UNCHANGED notOrch
    \/ \E j \in DOMAIN jobs : JobProcess(j) /\ UNCHANGED notOrch
    \/ \E j \in DOMAIN jobs : JobFinish(j) /\ UNCHANGED notOrch
    \/ \E j \in DOMAIN jobs : JobKill(j) /\ UNCHANGED notOrch
    \/ \E j \in DOMAIN jobs : JobPurge(j) /\ UNCHANGED notOrch

Spec == Init /\ [][Next]_vars

RunnerNext ==
    \/ RunnerStart /\ UNCHANGED notRunner
    \/ SkipStructure /\ UNCHANGED notRunner
    \/ StartStructure /\ UNCHANGED notRunner
    \/ RunnerExit /\ UNCHANGED notRunner
    \/ BeginStep /\ UNCHANGED notRunner
    \/ ChildExits /\ UNCHANGED notRunner
    \/ ReaderSeesMarker /\ UNCHANGED notRunner
    \/ TimeoutElapses /\ UNCHANGED notRunner
    \/ StepReturns /\ UNCHANGED notRunner
    \/ WatchdogFallback /\ UNCHANGED notRunner
    \/ RunnerKilled /\ UNCHANGED notRunner
    \/ CollectTask /\ UNCHANGED <<orchVars, runnerVars, submitVars, queryVars,
                                 incarVars, runVars, statusVars>>

RunnerSpec == Init /\ [][RunnerNext]_vars

\* One call of submit_job for every behaviour of sbatch within the bounds.
SubmitInit ==
    /\ OrchInit /\ RunnerInit /\ CollectInit
    /\ SubmitStart /\ QueryIdle /\ IncarIdle /\ RunIdle /\ StatusIdle

SubmitNext ==
    \/ SubmitWritesScript /\ UNCHANGED notSubmit
    \/ SubmitRunsSbatch /\ UNCHANGED notSubmit

SubmitSpec == SubmitInit /\ [][SubmitNext]_vars

\* One call of get_job_status for every behaviour of scontrol within the
\* bounds.
QueryInit ==
    /\ OrchInit /\ RunnerInit /\ CollectInit
    /\ SubmitIdle /\ QueryStart /\ IncarIdle /\ RunIdle /\ StatusIdle

QueryNext == QueryJob /\ UNCHANGED notQuery

QuerySpec == QueryInit /\ [][QueryNext]_vars

\* get, set and delete on every file, tag and value within the bounds.
IncarInit ==
    /\ OrchInit /\ RunnerInit /\ CollectInit
    /\ SubmitIdle /\ QueryIdle /\ IncarStart /\ RunIdle /\ StatusIdle

IncarNext ==
    \/ IncarGet /\ UNCHANGED notIncar
    \/ IncarSet /\ UNCHANGED notIncar
    \/ IncarDelete /\ UNCHANGED notIncar

IncarSpec == IncarInit /\ [][IncarNext]_vars

\* One call of VaspJob.run for every behaviour of the command within the
\* bounds; the watchdog is taken at its return.
RunInit ==
    /\ OrchInit /\ RunnerInit /\ CollectInit
    /\ SubmitIdle /\ QueryIdle /\ IncarIdle /\ RunStart /\ StatusIdle

RunNext ==
    \/ RunLaunchesStep /\ UNCHANGED notRun
    \/ RunStepReturns /\ UNCHANGED notRun

RunSpec == RunInit /\ [][RunNext]_vars

\* The Orchestrator under the conditions of a run that is left alone: the
\* process does not die, sbatch accepts every submission, scontrol answers,
\* and only the watchdog ends a batch job early, which it does to a running
\* job and only while the Task can still be resubmitted.
LiveCreateTask == CreateTask /\ orch' = "running"

LiveFirstSubmit == FirstSubmit /\ orch' = "running"

LiveResubmit == Resubmit /\ orch' = "running"

WatchdogKill(j) ==
    /\ jobs[j].state = "RUNNING"
    /\ Len(jobs) < MaxJobs
    /\ JobKill(j)

LiveNext ==
    \/ GenerateUnstarted /\ UNCHANGED notOrch
    \/ LiveCreateTask /\ UNCHANGED notOrch
    \/ LiveFirstSubmit /\ UNCHANGED notOrch
    \/ WaitPoll /\ UNCHANGED notOrch
    \/ LiveResubmit /\ UNCHANGED notOrch
    \/ CollectAndGenerate /\ UNCHANGED notOrch
    \/ \E j \in DOMAIN jobs : JobStart(j) /\ UNCHANGED notOrch
    \/ \E j \in DOMAIN jobs : JobProcess(j) /\ UNCHANGED notOrch
    \/ \E j \in DOMAIN jobs : JobFinish(j) /\ UNCHANGED notOrch
    \/ \E j \in DOMAIN jobs : WatchdogKill(j) /\ UNCHANGED notOrch

\* run's loop keeps taking poll cycles (while True, line 404); a pending job
\* is started, and a running Job Runner goes through its structures and
\* returns, since every command it launches exits.
LiveFairness ==
    /\ WF_vars(GenerateUnstarted /\ UNCHANGED notOrch)
    /\ WF_vars(LiveCreateTask /\ UNCHANGED notOrch)
    /\ WF_vars(LiveFirstSubmit /\ UNCHANGED notOrch)
    /\ WF_vars(LiveResubmit /\ UNCHANGED notOrch)
    /\ WF_vars(CollectAndGenerate /\ UNCHANGED notOrch)
    /\ WF_vars(\E j \in DOMAIN jobs : JobStart(j) /\ UNCHANGED notOrch)
    /\ WF_vars(\E j \in DOMAIN jobs : JobProcess(j) /\ UNCHANGED notOrch)
    /\ WF_vars(\E j \in DOMAIN jobs : JobFinish(j) /\ UNCHANGED notOrch)

LiveSpec == Init /\ [][LiveNext]_vars /\ LiveFairness

\* status.json by its keys, over the batch jobs of one Task.
StatusInit ==
    /\ OrchInit /\ RunnerInit /\ CollectInit
    /\ SubmitIdle /\ QueryIdle /\ IncarIdle /\ RunIdle /\ StatusStart

StatusNext ==
    \/ MainLoads /\ UNCHANGED notStatus
    \/ MainStructure /\ UNCHANGED notStatus
    \/ MainReturns /\ UNCHANGED notStatus
    \/ MainKilled /\ UNCHANGED notStatus
    \/ OrchChecks /\ UNCHANGED notStatus

StatusSpec == StatusInit /\ [][StatusNext]_vars

\* ---------------------------------------------------------------- claims
\* A job state the poll cycle read from the scheduler that is neither PENDING
\* nor RUNNING.
TerminalStates == {"COMPLETED", "FAILED", "UNKNOWN"}

\* The Job Status Record as the claims define completeness.
AllSuccess(st) == st.exists /\ \A s \in Structs : st.jobs[s] = "success"

OpsOf(c) == {c.events[i].op : i \in DOMAIN c.events}

\* C1: at most one batch job of a given Task is live (PENDING or RUNNING) at a
\* time, over any sequence of poll cycles, job states and Orchestrator
\* crashes, a crash between sbatch's acceptance and the write of slurm.json
\* included.
C1_AtMostOneLiveJobPerTask ==
    \A g \in Gens : Cardinality(LiveJobsOf(g)) <= 1

\* C2: task creation is idempotent. config.json of a generation is written at
\* most once, and only into its one task directory; a cycle that finds the
\* config takes the submit/poll branch and never prepares the task again; the
\* cycle that creates the task submits nothing; and once the config exists
\* neither it nor the task's input set changes.
C2_TaskCreationIdempotent ==
    /\ [](/\ \A g \in Gens :
               /\ configWrites[g] <= 1
               /\ taskConfig[g].exists => (g \in taskDir /\ configWrites[g] = 1)
          /\ cycle.hadConfig => "prepare" \notin OpsOf(cycle)
          /\ "prepare" \in OpsOf(cycle) =>
                (OpsOf(cycle) = {"prepare"} /\ Len(jobs) = cycle.jobsBefore))
    /\ [][\A g \in Gens : taskConfig[g].exists =>
             (taskConfig'[g] = taskConfig[g] /\ taskPoscars'[g] = taskPoscars[g])]_vars

\* C2 witness: a cycle found the task's config written once and submitted.
C2_Witness ==
    /\ cycle.hadConfig
    /\ configWrites[cycle.gen] = 1
    /\ "sbatch" \in OpsOf(cycle)
    /\ orch = "running"

\* C3: a poll cycle that finds the Task existing, its recorded job neither
\* PENDING nor RUNNING and the Job Status Record incomplete performs exactly one
\* submission, for the same Task under the name <g>R, which adds exactly one
\* job when the scheduler accepts it; it prepares no Task, collects nothing and
\* does not invoke the generator, however many retries came before.
C3_IncompleteIsResubmitted ==
    (/\ cycle.hadConfig
     /\ cycle.recorded # NoJob
     /\ cycle.jobState \in TerminalStates
     /\ ~AllSuccess(cycle.status))
    => /\ Len(cycle.events) = 1
       /\ cycle.events[1].op = "sbatch"
       /\ cycle.events[1].gen = cycle.gen
       /\ cycle.events[1].retry
       /\ IF cycle.events[1].ok
          THEN /\ Len(jobs) = cycle.jobsBefore + 1
               /\ jobs[Len(jobs)].task = cycle.gen
               /\ jobs[Len(jobs)].retry
          ELSE Len(jobs) = cycle.jobsBefore

\* C3 witness: an accepted resubmission of a Task whose recorded job was itself
\* a retry.
C3_Witness ==
    /\ cycle.hadConfig
    /\ cycle.recorded # NoJob
    /\ cycle.jobState \in TerminalStates
    /\ ~AllSuccess(cycle.status)
    /\ jobs[cycle.recorded].retry
    /\ Len(cycle.events) = 1
    /\ cycle.events[1].ok

\* C4: outputs are collected only in a poll cycle that found the recorded job
\* neither PENDING nor RUNNING and every structure success; the generator is
\* invoked for a started generation only after that cycle's collection
\* succeeded, and collection is the cycle's first operation.
C4_CollectOnlyWhenComplete ==
    \A i \in DOMAIN cycle.events :
        /\ cycle.events[i].op = "collect" =>
              /\ i = 1
              /\ cycle.hadConfig
              /\ cycle.recorded # NoJob
              /\ cycle.jobState \in TerminalStates
              /\ AllSuccess(cycle.status)
        /\ (cycle.events[i].op = "calypso" /\ cycle.gen # None) =>
              /\ i = 2
              /\ cycle.events[1].op = "collect"
              /\ cycle.events[1].ok

\* C4 witness: a cycle collected the outputs and then invoked the generator.
C4_Witness ==
    /\ Len(cycle.events) = 2
    /\ cycle.events[1].op = "collect"
    /\ cycle.events[2].op = "calypso"
    /\ cycle.gen \in outputs

\* ----------------------------------------------------------------------
\* Claims about the Job Runner (RunnerSpec). The Job Runner executions of the
\* Task follow one another; a write of a file is one operation.
\* ----------------------------------------------------------------------

\* The structures the status file recorded success when this Job Runner started.
StartSuccess ==
    {s \in Structs : rStart.exists /\ rStart.jobs[s].status = "success"}

\* C5: a Job Runner that starts on a status file recording some structures
\* success processes only structures that are not success there, in ascending
\* order; it makes no job or step directory for a recorded-success structure
\* and their entries stay in the status file exactly as they were.
C5_ResumeProcessesOnlyNonSuccess ==
    /\ [](rPc # "idle" =>
            /\ \A k \in DOMAIN rProcessed : rProcessed[k] \notin StartSuccess
            /\ \A k, l \in DOMAIN rProcessed :
                  k < l => rProcessed[k] < rProcessed[l]
            /\ \A s \in StartSuccess :
                  rStatus.exists /\ rStatus.jobs[s] = rStart.jobs[s])
    /\ [][\A s \in StartSuccess :
             /\ rSteps'[s] = rSteps[s]
             /\ (s \in rJobDir') = (s \in rJobDir)]_vars

\* C5 witness: a resumed Job Runner skipped a recorded success, processed the
\* rest and is about to return.
C5_Witness ==
    /\ rPc = "loop"
    /\ rCur = NStruct
    /\ StartSuccess # {}
    /\ Len(rProcessed) >= 1
    /\ RAllSuccess

C7_FileNotFoundIsNotSuccess ==
    \A s \in Structs :
        (rStatus.exists /\ rStatus.jobs[s].error = "FileNotFoundError")
            => rStatus.jobs[s].status # "success"

\* C8: when the simulation command of step k of a structure exited non-zero
\* and the supervising code returned, the structure is persisted success with
\* a non-empty warning in that same iteration, no step directory is made for
\* it then or later, and the loop goes on to the next structure.
C8_NonZeroExitIsWarning ==
    /\ [][(rPc = "watch" /\ wd.child = "nonzero" /\ rPc' \notin {"watch", "idle"})
            => /\ rPc' = "loop"
               /\ rCur' = rCur + 1
               /\ rStatus'.exists
               /\ rStatus'.jobs[rCur + 1].status = "success"
               /\ rStatus'.jobs[rCur + 1].warning # ""
               /\ rStatus'.jobs[rCur + 1].error = ""
               /\ rSteps' = rSteps
               /\ \A s \in Structs \ {rCur + 1} :
                     rStatus'.jobs[s] = rMem[s]]_vars
    /\ [][\A s \in Structs :
             (rStatus.exists /\ rStatus.jobs[s].status = "success")
                => rSteps'[s] = rSteps[s]]_vars

\* C8 witness: structure 1 failed on step 1, so that its step 2 was never
\* made, and structure 2 completed its chain in the same Job Runner.
C8_Witness ==
    /\ rPc = "loop"
    /\ rCur = NStruct
    /\ rStatus.exists
    /\ rStatus.jobs[1].status = "success"
    /\ rStatus.jobs[1].warning # ""
    /\ ~rSteps[1][2].dir
    /\ rStatus.jobs[2].status = "success"
    /\ rStatus.jobs[2].warning = ""
    /\ rStatus.jobs[2].error = ""
    /\ rStatus.jobs[2].timestamp = rStatus.jobs[1].timestamp
    /\ rSteps[2][NSteps].outcar

\* The position of the operation in the log, 0 when it was not executed.
PosOf(log, op, arg) ==
    IF Executed(log, op, arg)
    THEN CHOOSE k \in DOMAIN log : log[k].op = op /\ log[k].arg = arg
    ELSE 0

\* C9: when the watchdog took the timeout branch, ML_LMLFF and ML_MODE are
\* gone from the step's INCAR and CUSTOM exists in the step directory; the
\* deletions came first, then the sentinel, then scancel with the job id of
\* the environment, then the exit. Without SLURM_JOB_ID the sequence ends in
\* the KeyError after the sentinel and scancel is not invoked.
C9_WatchdogFallbackOrder ==
    rEnd.how = "fallback" =>
        LET d == rSteps[rEnd.s][rEnd.i]
            log == rEnd.log
            n == Len(log)
        IN  /\ d.incar.ML_LMLFF = "absent"
            /\ d.incar.ML_MODE = "absent"
            /\ d.custom
            /\ rPc = "idle"
            /\ 0 < PosOf(log, "delete", "ML_LMLFF")
            /\ PosOf(log, "delete", "ML_LMLFF") < PosOf(log, "touch", "CUSTOM")
            /\ 0 < PosOf(log, "delete", "ML_MODE")
            /\ PosOf(log, "delete", "ML_MODE") < PosOf(log, "touch", "CUSTOM")
            /\ \/ /\ PosOf(log, "scancel", "SLURM_JOB_ID") = n - 1
                  /\ PosOf(log, "touch", "CUSTOM") < n - 1
                  /\ log[n - 1].id = rRun
                  /\ log[n].op = "exit"
               \/ /\ ~Executed(log, "scancel", "SLURM_JOB_ID")
                  /\ PosOf(log, "touch", "CUSTOM") < n
                  /\ log[n] = Op("raise", "KeyError", 0)

\* C9 witness: the fallback of the second batch job cancelled job 2.
C9_Witness ==
    /\ rEnd.how = "fallback"
    /\ rRun = 2
    /\ Executed(rEnd.log, "scancel", "SLURM_JOB_ID")
    /\ rSteps[rEnd.s][rEnd.i].custom

\* C10: a step directory that holds the sentinel has an INCAR without ML_LMLFF
\* and ML_MODE, whichever Job Runner and flags come to it later, and the step
\* is run there without watchdog monitoring.
C10_SentinelStepRunsUnmonitored ==
    /\ \A s \in Structs, i \in Steps :
          rSteps[s][i].custom =>
             /\ rSteps[s][i].incar.exists
             /\ rSteps[s][i].incar.ML_LMLFF = "absent"
             /\ rSteps[s][i].incar.ML_MODE = "absent"
    /\ (rPc = "watch" /\ rSteps[rCur + 1][rStep].custom) =>
          (~wd.ml /\ PollOutcome(wd.ml, wd.child, wd.timedOut, wd.found)
                        \in {"wait", "return"})

\* C10 witness: the resubmitted Job Runner runs the step of the sentinel, the
\* timeout has passed without the marker and the child is still running.
C10_Witness ==
    /\ rRun = 2
    /\ rPc = "watch"
    /\ rSteps[rCur + 1][rStep].custom
    /\ wd.child = "running"
    /\ wd.timedOut
    /\ ~wd.found

\* C11: while a step is supervised with ML_LMLFF absent or .FALSE. in its
\* INCAR, nothing edits the INCAR or makes CUSTOM, the timeout branch with its
\* scancel is never taken, whatever time has passed and whatever the child
\* printed, and the supervising code returns only once the child has exited,
\* with the child's exit code.
C11_DisabledFeatureOnlyWaits ==
    /\ [](rPc = "watch" /\ ~wd.ml =>
            PollOutcome(wd.ml, wd.child, wd.timedOut, wd.found)
               = (IF wd.child = "running" THEN "wait" ELSE "return"))
    /\ [][(rPc = "watch" /\ ~wd.ml) =>
            /\ rSteps'[rCur + 1][rStep].incar = rSteps[rCur + 1][rStep].incar
            /\ rSteps'[rCur + 1][rStep].custom = rSteps[rCur + 1][rStep].custom
            /\ rEnd'.how # "fallback"
            /\ rPc' \notin {"watch", "idle"} =>
                  /\ wd.child \in {"zero", "nonzero"}
                  /\ (wd.child = "nonzero") =
                        (rStatus'.jobs[rCur + 1].warning = "VaspExecutionError")]_vars

\* C11 witness: a step whose INCAR says ML_LMLFF = .FALSE. is being waited for,
\* the timeout has passed, no marker was seen and the child still runs.
C11_Witness ==
    /\ rPc = "watch"
    /\ ~wd.ml
    /\ rSteps[rCur + 1][rStep].incar.ML_LMLFF = ".FALSE."
    /\ ~rSteps[rCur + 1][rStep].custom
    /\ wd.timedOut
    /\ ~wd.found
    /\ wd.child = "running"

\* C12: every step that is launched runs on the right input structure: step 1
\* on the copy of POSCAR_ORIGINAL, a step i > 1 on the CONTCAR that step i-1
\* of the same job holds, also in a Job Runner that resumes the job after a
\* kill or after the watchdog left a sentinel.
C12_StepRunsOnPreviousOutput ==
    rPc = "watch" =>
        LET d == rSteps[rCur + 1][rStep] IN
        IF rStep = 1
        THEN d.poscar = POSCAR_ORIGINAL
        ELSE d.poscar # 0 /\ d.poscar = rSteps[rCur + 1][rStep - 1].contcar

\* ----------------------------------------------------------------------
\* Claims about the generator step of the Orchestrator (Spec)
\* ----------------------------------------------------------------------

\* The last thing the latest cycle did was a generator invocation that exited 0.
GeneratorExitedZero ==
    /\ cycle.events # <<>>
    /\ cycle.events[Len(cycle.events)].op = "calypso"
    /\ cycle.events[Len(cycle.events)].ok

\* C13: after a generator invocation that exited 0 and left no POSCAR_* file,
\* run has returned normally, whether or not the step counter exists or moved;
\* that cycle prepared no Task and submitted no job, and nothing is submitted
\* afterwards.
C13_NoCandidatesEndsTheLoop ==
    (GeneratorExitedZero /\ poscars = {}) =>
        /\ orch = "done"
        /\ "prepare" \notin OpsOf(cycle)
        /\ "sbatch" \notin OpsOf(cycle)
        /\ Len(jobs) = cycle.jobsBefore

\* C13 witness: the generator exited 0 without candidates and without a
\* counter file, and run returned.
C13_Witness ==
    /\ GeneratorExitedZero
    /\ poscars = {}
    /\ stepFile = NoStep
    /\ orch = "done"

\* The cycle's generator invocation exited with a non-zero code.
GeneratorFailed ==
    /\ cycle.events # <<>>
    /\ cycle.events[Len(cycle.events)].op = "calypso"
    /\ ~cycle.events[Len(cycle.events)].ok

\* C30: after a generator invocation that exited non-zero, run has ended with
\* an error; that cycle did not read the candidates and the counter again,
\* prepared no Task and submitted no job, and nothing is submitted while the
\* Orchestrator stays ended.
C30_GeneratorFailureIsFatal ==
    GeneratorFailed =>
        /\ orch = "failed"
        /\ ~cycle.reread
        /\ "prepare" \notin OpsOf(cycle)
        /\ "sbatch" \notin OpsOf(cycle)
        /\ Len(jobs) = cycle.jobsBefore

\* C30 witness: the outputs of a generation were collected, the generator
\* exited non-zero, and run ended with the error.
C30_Witness ==
    /\ GeneratorFailed
    /\ cycle.gen # None
    /\ "collect" \in OpsOf(cycle)
    /\ orch = "failed"
    /\ stepFile = cycle.gen + 1

\* C14: after a generator invocation that exited 0 and left candidates, a
\* counter that is absent or gives a generation not greater than the one
\* before the invocation makes run raise.
C14_CounterMustAdvance ==
    (/\ GeneratorExitedZero
     /\ poscars # {}
     /\ \/ check_calypso_generation = None
        \/ cycle.gen # None /\ check_calypso_generation <= cycle.gen)
    => orch = "failed"

\* C15: a poll cycle in which sbatch failed (SlurmSubmissionError) or scontrol
\* failed (SlurmScontrolError) does not end the Orchestrator loop.
C15_SchedulerErrorsDoNotEndTheLoop ==
    (\/ /\ cycle.events # <<>>
        /\ cycle.events[Len(cycle.events)].op = "sbatch"
        /\ ~cycle.events[Len(cycle.events)].ok
     \/ cycle.jobState = "QueryError")
    => orch # "failed"

\* ----------------------------------------------------------------------
\* Claims about output collection (RunnerSpec)
\* ----------------------------------------------------------------------

\* job_<s> is a directory with at least one step directory.
HasSteps(s) == s \in rJobDir /\ StepFolders(s) # {}

\* C16: output collection raises FileNotFoundError exactly for a job whose
\* selected step has no OUTCAR, after it copied that job's POSCAR_ORIGINAL;
\* a selected step without CONTCAR only leaves CONTCAR_<s> uncopied, while
\* POSCAR_<s> and OUTCAR_<s> of that job are copied and the loop goes on with
\* the other jobs.
C16_MissingOutcarRaisesMissingContcarSkips ==
    rCollect.state # "none" =>
        /\ rCollect.state = "FileNotFoundError" =>
              /\ HasSteps(rCollect.raised)
              /\ ~rSteps[rCollect.raised][MaxStepFolder(rCollect.raised)].outcar
              /\ rOut[rCollect.raised].poscar
              /\ rOut[rCollect.raised].outcar = 0
        /\ rCollect.state = "done" =>
              \A s \in Structs : HasSteps(s) => rSteps[s][MaxStepFolder(s)].outcar
        /\ \A s \in Structs :
              (HasSteps(s) /\ (rCollect.state = "done" \/ rOut[s].outcar # 0)) =>
                 /\ rOut[s].poscar
                 /\ rOut[s].outcar = MaxStepFolder(s)
                 /\ rOut[s].contcar =
                       (IF rSteps[s][MaxStepFolder(s)].contcar # 0
                        THEN MaxStepFolder(s) ELSE 0)

\* C16 witness: collection ran to its end; structure 1 has no CONTCAR in its
\* selected step and got POSCAR_1 and OUTCAR_1, structure 2 got all three.
C16_Witness ==
    /\ rCollect.state = "done"
    /\ HasSteps(1)
    /\ rSteps[1][MaxStepFolder(1)].contcar = 0
    /\ rOut[1].poscar
    /\ rOut[1].outcar # 0
    /\ rOut[1].contcar = 0
    /\ rOut[2].contcar # 0
    /\ rOut[2].outcar # 0

\* The step directories of job_<s> that hold a CONTCAR.
StepsWithContcar(s) == {i \in StepFolders(s) : rSteps[s][i].contcar # 0}

\* C17: for every job directory in which some step holds a CONTCAR, a
\* collection that ran to its end copied POSCAR_ORIGINAL, and CONTCAR and
\* OUTCAR of the highest-indexed step among those that hold a CONTCAR.
C17_CollectsHighestStepWithContcar ==
    rCollect.state = "done" =>
        \A s \in Structs :
            (HasSteps(s) /\ StepsWithContcar(s) # {}) =>
                /\ rOut[s].poscar
                /\ rOut[s].contcar = Max(StepsWithContcar(s))
                /\ rOut[s].outcar = Max(StepsWithContcar(s))

\* The one batch job of the Task ran to the end of main, nothing was killed,
\* every command exited 0 and every step wrote its CONTCAR and OUTCAR.
CleanRun ==
    /\ rRun = 1
    /\ rPc = "idle"
    /\ rEnd.how = "returned"
    /\ \A s \in Structs :
          /\ rStatus.jobs[s].warning = ""
          /\ rStatus.jobs[s].error = ""
          /\ \A i \in Steps : rSteps[s][i].contcar # 0 /\ rSteps[s][i].outcar

\* C18: after such a run status.json holds success for every structure, every
\* structure has CONTCAR and OUTCAR of its last step, and the poll cycle that
\* collects copies POSCAR_ORIGINAL and the last step's CONTCAR and OUTCAR of
\* every structure into the workspace, raises nothing and invokes the
\* generator.
C18_EndToEndSuccess ==
    CleanRun =>
        /\ RAllSuccess
        /\ \A s \in Structs :
              /\ s \in rJobDir
              /\ MaxStepFolder(s) = NSteps
        /\ rCollect.state # "none" =>
              /\ rCollect.state = "done"
              /\ rCollect.calypso
              /\ \A s \in Structs :
                    rOut[s] = [poscar |-> TRUE, contcar |-> NSteps,
                               outcar |-> NSteps]

\* C18 witness: the clean run was collected.
C18_Witness ==
    /\ CleanRun
    /\ rCollect.state = "done"
    /\ rOut[NStruct].contcar = NSteps

\* ----------------------------------------------------------------------
\* Claims about submission (Spec)
\* ----------------------------------------------------------------------

\* The batch jobs the scheduler accepted for the Task of generation g.
JobsOf(g) == {j \in DOMAIN jobs : jobs[j].task = g}

\* C19: slurm.json of a Task does not exist while no submission for the Task
\* was accepted, and otherwise holds the job id of the most recent accepted
\* submission.
C19_RecordHoldsLatestJobId ==
    \A g \in Gens :
        slurmFile[g] = (IF JobsOf(g) = {} THEN NoJob ELSE Max(JobsOf(g)))

\* C20: a call of submit_job ends in one of two ways, the return of the job
\* id or SlurmSubmissionError.
C20_SubmitHasTwoOutcomes ==
    sbPc = "done" => sbOut.kind \in {"none", "return", "SlurmSubmissionError"}

\* ----------------------------------------------------------------------
\* Claims about the watchdog's polls (RunnerSpec)
\* ----------------------------------------------------------------------

\* The step is the one in which the watchdog takes its timeout branch.
FallbackTaken == rPc = "watch" /\ rEnd' # rEnd /\ rEnd'.how = "fallback"

\* The step is one in which monitor_and_restart returns to VaspJob.run.
WatchdogReturns == rPc = "watch" /\ rPc' \in {"step", "loop"}

\* C26: with the feature enabled, the timeout branch is taken only when the
\* timeout has elapsed and the reader has not seen the marker. Once the reader
\* has seen it, it stays seen for the step, no poll takes the timeout branch,
\* and the watchdog returns only after the child has exited.
C26_FallbackOnlyWithoutMarker ==
    /\ [][FallbackTaken => wd.ml /\ wd.timedOut /\ ~wd.found]_vars
    /\ [][rPc = "watch" /\ wd.found =>
            /\ rPc' = "watch" => wd'.found
            /\ ~FallbackTaken
            /\ WatchdogReturns => wd.child # "running"]_vars
    /\ [](rPc = "watch" /\ wd.ml /\ wd.found =>
            PollOutcome(wd.ml, wd.child, wd.timedOut, wd.found)
               = (IF wd.child = "running" THEN "sleep" ELSE "return"))

\* The marker was seen, the timeout has elapsed since, and the child still
\* runs under the watchdog.
C26_Witness ==
    /\ rPc = "watch"
    /\ wd.ml
    /\ wd.found
    /\ wd.timedOut
    /\ wd.child = "running"
    /\ PollOutcome(wd.ml, wd.child, wd.timedOut, wd.found) = "sleep"

\* C27: with the feature enabled, a poll that finds the child exited returns
\* its exit code, also when the timeout has elapsed without the marker: the
\* step directory's INCAR and sentinel are left as they are, nothing is
\* cancelled, and VaspJob.run goes on according to the exit code.
C27_ChildExitCheckedFirst ==
    /\ [](rPc = "watch" /\ wd.ml /\ wd.child # "running" =>
            PollOutcome(wd.ml, wd.child, wd.timedOut, wd.found) = "return")
    /\ [][rPc = "watch" /\ wd.ml /\ wd.child # "running" =>
            /\ ~FallbackTaken
            /\ rSteps'[rCur + 1][rStep].incar = rSteps[rCur + 1][rStep].incar
            /\ rSteps'[rCur + 1][rStep].custom = rSteps[rCur + 1][rStep].custom
            /\ WatchdogReturns /\ wd.child = "nonzero" =>
                  /\ rPc' = "loop"
                  /\ rDone'[rCur + 1].entry.warning = "VaspExecutionError"]_vars

\* The child has exited, the timeout has elapsed and the marker was never
\* seen: the poll returns.
C27_Witness ==
    /\ rPc = "watch"
    /\ wd.ml
    /\ wd.child = "zero"
    /\ wd.timedOut
    /\ ~wd.found
    /\ PollOutcome(wd.ml, wd.child, wd.timedOut, wd.found) = "return"

\* C28: one call of monitor_and_restart launches the command once: the first
\* iteration of its loop returns or ends the process.
C28_LaunchedAtMostOnce ==
    /\ [](wd.launches <= 1)
    /\ [](rPc = "watch" => wd.launches = 1)
    /\ [][rPc = "watch" /\ rPc' = "watch" =>
            wd'.launches = wd.launches]_vars

\* The timeout branch was taken with SLURM_JOB_ID set, and the process ended
\* after the one launch.
C28_Witness ==
    /\ rPc = "idle"
    /\ rEnd.how = "fallback"
    /\ Executed(rEnd.log, "scancel", "SLURM_JOB_ID")
    /\ rEnd.log[Len(rEnd.log)] = Op("exit", "1", 0)

\* ----------------------------------------------------------------------
\* Claims about the end of a step (RunSpec)
\* ----------------------------------------------------------------------

\* Step k returned with exit code 0 and OUTCAR in its directory.
Completed(k) == vjRan[k].child = "zero" /\ vjRan[k].outcar

\* C29: a later step is started and side-artifacts of a step are copied only
\* when the step's command exited 0 and OUTCAR is in the step directory; a
\* step that exited 0 without OUTCAR ends run with FileNotFoundError, is the
\* last step started, and has none of its side-artifacts copied.
C29_StepCompletesOnlyWithOutcar ==
    \A k \in 1..Len(vjRan) :
        /\ k < vjStep => Completed(k)
        /\ (\E a \in SideArtifacts : <<a, k>> \in vjExport) => Completed(k)
        /\ vjRan[k].child = "zero" /\ ~vjRan[k].outcar =>
              /\ vjPc = "done"
              /\ vjExc = "FileNotFoundError"
              /\ vjStep = k
              /\ \A a \in SideArtifacts : <<a, k>> \notin vjExport

\* The first of the steps exited 0 and left both side-artifacts and no
\* OUTCAR: run raised FileNotFoundError and copied nothing.
C29_Witness ==
    /\ vjPc = "done"
    /\ vjExc = "FileNotFoundError"
    /\ vjStep = 1
    /\ vjStep < NSteps
    /\ vjRan = <<[child |-> "zero", outcar |-> FALSE,
                  present |-> SideArtifacts]>>
    /\ vjExport = {}

\* C25: a poll cycle that reads PENDING or RUNNING for the recorded job of the
\* Task performs no external operation (no sbatch, no generator run) and
\* leaves slurm.json, config.json, status.json, the Task directory, the
\* generator workspace and the scheduler's jobs as they were; the loop goes
\* on.
C25_WaitingPollChangesNothing ==
    [][ cycle' # cycle /\ cycle'.jobState \in {"PENDING", "RUNNING"} =>
          /\ cycle'.events = <<>>
          /\ orch' = orch
          /\ UNCHANGED <<slurmFile, taskConfig, statusFile, taskDir, taskPoscars,
                         stepFile, poscars, outputs, jobs, configWrites>> ]_vars

\* A poll cycle has read RUNNING for the recorded job and went to sleep.
C25_Witness ==
    /\ orch = "running"
    /\ cycle.gen # None
    /\ cycle.jobState = "RUNNING"
    /\ cycle.recorded # NoJob
    /\ cycle.events = <<>>
    /\ slurmFile[cycle.gen] = cycle.recorded

\* ----------------------------------------------------------------------
\* Claims about the state query (QuerySpec)
\* ----------------------------------------------------------------------

\* The scheduler's answer is its "invalid job id" response: the phrase is on
\* the stdout of a command that exited 0, or on the stderr of one that failed.
InvalidJobId ==
    \/ qIn.rc = 0 /\ Contains(qIn.stdout, "Invalid job id specified")
    \/ qIn.rc # 0 /\ Contains(qIn.stderr, "Invalid job id specified")

\* The values of the JobState tokens of stdout.
JobStates == {qIn.stdout[i].value : i \in {k \in 1..Len(qIn.stdout) :
                  qIn.stdout[k] \in {Token("JobState", "RUNNING"),
                                     Token("JobState", "COMPLETED")}}}

Assigns(line, key) == line.key = key

\* The lines that do not assign the key, in their order.
Others(lines, key) == SelectSeq(lines, LAMBDA line : ~Assigns(line, key))

\* The value under the precedence boolean, integer, float, string: a string
\* that reads as a boolean, an integer or a float is that value.
UnderPrecedence(v) ==
    IF v.type # "str" THEN v
    ELSE IF v.text \in {".TRUE.", ".FALSE."} THEN BoolV(v.text = ".TRUE.")
    ELSE IF IsIntLiteral(v.text) THEN IntV(int(v.text))
    ELSE IF IsFloatLiteral(v.text) THEN FloatV(v.text)
    ELSE StrV(v.text)

\* The value is a string that holds a comment character.
HoldsCommentCharacter(v) == v.type = "str" /\ CutAtComment(v.text).rest # ""

\* The file with a newline at the end of its last line.
Terminated(lines) ==
    IF lines = <<>> THEN lines ELSE [lines EXCEPT ![Len(lines)].nl = TRUE]

AssignedAt(lines, key) == {i \in 1..Len(lines) : Assigns(lines[i], key)}

FlagsOf(c) ==
    [ml_train |-> c.ml_train, ml_refit |-> c.ml_refit, ml_predict |-> c.ml_predict]

\* C31: the flags of every persisted Task config are train iff g < t, refit
\* iff g = t, predict iff g > t; so exactly one flag is set, predict never
\* comes with train or refit, and VaspJob's constructor keeps the flags.
C31_PhaseFlagsFollowGeneration ==
    \A g \in Gens :
        taskConfig[g].exists =>
            /\ taskConfig[g].ml_train <=> g < ml_train_until
            /\ taskConfig[g].ml_refit <=> g = ml_train_until
            /\ taskConfig[g].ml_predict <=> g > ml_train_until
            /\ FlagsOf(taskConfig[g]) \in TaskFlags
            /\ VaspJobFlags(FlagsOf(taskConfig[g])) = FlagsOf(taskConfig[g])

\* Three generations have a Task config: one trains, one refits, one
\* predicts.
C31_Witness ==
    /\ \A g \in 0..2 : g \in Gens /\ taskConfig[g].exists
    /\ taskConfig[0].ml_train
    /\ taskConfig[1].ml_refit
    /\ taskConfig[2].ml_predict

\* A step of an Orchestrator operation: a poll cycle of run, a crash, a restart.
OrchestratorStep ==
    \/ GenerateUnstarted \/ CreateTask \/ FirstSubmit \/ WaitPoll \/ Resubmit
    \/ CollectAndGenerate \/ QueryError \/ OrchCrash \/ OrchRestart

\* C32: no Orchestrator operation creates, modifies or deletes a status file;
\* a status file changes only when a running Job Runner has processed a
\* structure and saves its record, and then only the file of its own Task.
C32_OnlyJobRunnerWritesStatus ==
    [][ /\ OrchestratorStep => UNCHANGED statusFile
        /\ statusFile' # statusFile =>
              /\ UNCHANGED <<orch, cycle, slurmFile, taskConfig, outputs>>
              /\ \E j \in DOMAIN jobs :
                    LET g == jobs[j].task
                        s == jobs[j].pos + 1
                    IN  /\ jobs[j].state = "RUNNING"
                        /\ s \in Structs
                        /\ jobs'[j].pos = s
                        /\ jobs[j].mem[s] # "success"
                        /\ statusFile'[g] = [exists |-> TRUE, jobs |-> jobs'[j].mem]
                        /\ \A h \in Gens \ {g} : statusFile'[h] = statusFile[h]
      ]_vars

\* A Task went through creation, submission, polling, the completeness check
\* and collection, and its status file is the one the Job Runner saved.
C32_Witness ==
    /\ 0 \in outputs
    /\ taskConfig[0].exists
    /\ slurmFile[0] # NoJob
    /\ statusFile[0] = [exists |-> TRUE, jobs |-> [s \in Structs |-> "success"]]
    /\ cycle.events # <<>>
    /\ cycle.events[1].op = "collect"

\* The generations that have a Task whose outputs were not collected.
Uncollected == {g \in Gens : taskConfig[g].exists /\ g \notin outputs}

SentinelMade ==
    /\ rPc = "watch"
    /\ ~rSteps[rCur + 1][rStep].custom
    /\ rSteps'[rCur + 1][rStep].custom

\* C34: the step in which the watchdog takes its fallback for structure s
\* ends the Job Runner process and leaves status.json as it was, with s not
\* success; from then until another Job Runner starts, the completeness check
\* fails, so the Task is resubmitted and nothing is collected.
C34_FallbackLeavesTaskIncomplete ==
    /\ [][ SentinelMade =>
              /\ rPc' = "idle"
              /\ rEnd'.how = "fallback"
              /\ rEnd'.s = rCur + 1
              /\ rStatus' = rStatus
              /\ rStatus.jobs[rCur + 1].status # "success"
              /\ UNCHANGED collectVars
         ]_vars
    /\ [](rEnd.how = "fallback" =>
              /\ rPc = "idle"
              /\ rStatus.jobs[rEnd.s].status # "success"
              /\ ~RAllSuccess
              /\ rCollect.state = "none")

\* The fallback was taken for the second structure after the first one was
\* saved as success; the Task can be resubmitted.
C34_Witness ==
    /\ rEnd.how = "fallback"
    /\ rEnd.s = 2
    /\ rPc = "idle"
    /\ rStatus.exists
    /\ rStatus.jobs[1].status = "success"
    /\ rStatus.jobs[2].status = "not-finished"
    /\ rRun < MaxRuns

\* The step directories that hold the sentinel CUSTOM.
Sentinels == {<<s, i>> \in Structs \X Steps : rSteps[s][i].custom}

\* C35: the fallback is taken only in a step directory without a sentinel and
\* leaves it with the sentinel and without ML_LMLFF and ML_MODE; a sentinel
\* is never removed and the INCAR beside it never changes again; a step run
\* in such a directory is not monitored. Every fallback therefore adds a
\* sentinel, and there are at most NStruct * NSteps of them.
C35_FallbackOncePerStepDirectory ==
    /\ [][ FallbackTaken =>
              /\ ~rSteps[rCur + 1][rStep].custom
              /\ rSteps'[rCur + 1][rStep].custom
              /\ rSteps'[rCur + 1][rStep].incar.ML_LMLFF = "absent"
              /\ rSteps'[rCur + 1][rStep].incar.ML_MODE = "absent"
              /\ Cardinality(Sentinels') = Cardinality(Sentinels) + 1
         ]_vars
    /\ [][ \A s \in Structs, i \in Steps :
              rSteps[s][i].custom =>
                 /\ rSteps'[s][i].custom
                 /\ rSteps'[s][i].incar = rSteps[s][i].incar
         ]_vars
    /\ []((rPc = "watch" /\ rSteps[rCur + 1][rStep].custom) =>
              /\ ~wd.ml
              /\ PollOutcome(wd.ml, wd.child, wd.timedOut, wd.found) # "fallback")
    /\ [](Cardinality(Sentinels) <= NStruct * NSteps)

\* The second batch job came back to the step of the first fallback, ran it
\* unmonitored, and took the fallback in the next step: two sentinels, two
\* cancellations.
C35_Witness ==
    /\ rRun = 2
    /\ rEnd.how = "fallback"
    /\ Executed(rEnd.log, "scancel", "SLURM_JOB_ID")
    /\ rEnd.s = 1
    /\ rEnd.i = 2
    /\ Sentinels = {<<1, 1>>, <<1, 2>>}

\* C36: every status.json a Job Runner has written holds one entry for every
\* candidate of the Task, not-finished and untouched for the ones no Job
\* Runner has processed; so when the Orchestrator's check returns True, every
\* candidate of the Task is recorded as success.
C36_StatusCoversEveryStructure ==
    /\ stFile.exists =>
          /\ DOMAIN stFile.jobs = stPoscars
          /\ \A s \in stPoscars :
                \/ stFile.jobs[s] = NewEntry
                \/ stFile.jobs[s].status = "success"
    /\ (all_task_job_completed(stFile) \/ stChecked = "complete") =>
          /\ stPoscars # {}
          /\ \A s \in stPoscars :
                s \in DOMAIN stFile.jobs /\ stFile.jobs[s].status = "success"

\* The first batch job was killed after it saved the first of two
\* structures; the check found the Task incomplete, the second job saved the
\* other one and the check then returned True.
C36_Witness ==
    /\ stPoscars = {1, 2}
    /\ stRuns = 2
    /\ stChecked = "complete"
    /\ stFile.exists
    /\ stFile.jobs[1].timestamp = 1
    /\ stFile.jobs[2].timestamp = 2

\* C37: whenever every structure of the Task is recorded as success and no
\* Job Runner is running, every job directory has a step directory, the
\* highest-indexed one holds OUTCAR, and a collection does not raise.
C37_CollectionNeverRaises ==
    /\ (rPc = "idle" /\ RAllSuccess) =>
          \A s \in Structs :
              /\ HasSteps(s)
              /\ rSteps[s][MaxStepFolder(s)].outcar
    /\ rCollect.state # "FileNotFoundError"

\* The cycle that has just run took the 'no task yet' branch while the
\* workspace held no POSCAR_* file.
PreparedWithoutCandidates ==
    /\ "prepare" \in OpsOf(cycle)
    /\ poscars = {}

\* C39: a Task that has a config has candidates; a cycle that takes the 'no
\* task yet' branch without candidates in the workspace ends run with an
\* error, writes no config and no Batch Submission Record and submits
\* nothing, and the generation has no config and no job afterwards.
C39_NoTaskForEmptyInputSet ==
    /\ [](\A g \in Gens : taskConfig[g].exists => taskPoscars[g] # {})
    /\ [][ (PreparedWithoutCandidates' /\ cycle' # cycle) =>
              /\ orch' = "failed"
              /\ UNCHANGED <<taskConfig, configWrites, taskPoscars, slurmFile,
                             jobs, statusFile>>
         ]_vars
    /\ [](PreparedWithoutCandidates =>
              /\ orch # "running"
              /\ ~taskConfig[cycle.gen].exists
              /\ slurmFile[cycle.gen] = NoJob
              /\ \A j \in DOMAIN jobs : jobs[j].task # cycle.gen)

\* Generation 0 was collected, the generator advanced the counter and left
\* no candidates, run returned; the Orchestrator was started again and its
\* first cycle failed in the 'no task yet' branch of generation 1.
C39_Witness ==
    /\ PreparedWithoutCandidates
    /\ cycle.gen = 1
    /\ orch = "failed"
    /\ 0 \in outputs
    /\ 1 \in taskDir
    /\ ~taskConfig[1].exists

\* No further batch job can be submitted within MaxJobs.
OutOfJobs == Len(jobs) = MaxJobs

\* C38: under LiveSpec every Task that has a config is eventually collected
\* (or the jobs of the model are used up), and the cycle that collects it
\* invokes the generator; a generator that exits 0 and leaves no candidates
\* ends the loop.
C38_EveryTaskIsEventuallyCollected ==
    /\ \A g \in Gens :
          taskConfig[g].exists ~> (g \in outputs \/ OutOfJobs)
    /\ [][ \A g \in Gens :
              (g \in outputs' /\ g \notin outputs) => "calypso" \in OpsOf(cycle')
         ]_vars
    /\ []((GeneratorExitedZero /\ poscars = {}) => orch = "done")

====
